---------------------------- MODULE Spec2Model ----------------------------
(***************************************************************************)
(* Model of the ComfyUI workflow clients of comput3ai/c3-examples:         *)
(*   - the text-to-video completion tracker (script 006)                   *)
(*       ComfyUIClient.check_workflow_status / get_queue_status /          *)
(*       wait_for_workflow_completion                                      *)
(*   - the text-to-image completion tracker (script 005)                   *)
(*   - the job client's queue_workflow, the downloader's download_file     *)
(*     and the pipeline of main() (script 006)                             *)
(*                                                                         *)
(* Time is kept in milliseconds.  Floating point seconds of the source are *)
(* fixed-point numbers with three decimals; int(x) of a non-negative x is  *)
(* integer division.                                                       *)
(***************************************************************************)
EXTENDS Integers, Sequences, FiniteSets, TLC

(***************************************************************************)
(* Bounds of the model                                                     *)
(***************************************************************************)
\* the longest caller budget explored, in minutes (timeout_minutes)
MaxTimeoutMinutes == 11
\* iterations explored per wait when the polling cadence is followed
MaxCadencePolls == 12
\* the longest running and pending lists of a queue response
MaxQueue == 3
\* full polls explored per wait
MaxPolls == 5
\* a long suspension of the process during one time.sleep, in ms
Stall == 620000
\* the duration of one remote call, in ms
RequestLatency == 1
\* the value of time.time() when the wait starts, in ms
StartClock == 100000

VARIABLES
    \* ---- completion trackers (wait_for_workflow_completion) ----
    script,                   \* "006" text-to-video, "005" text-to-image, "none"
    wpc,                      \* position of the wait loop
    now,                      \* time.time()
    start_time,
    timeout_seconds,
    has_callback,             \* status_callback is not None
    check_interval,
    elapsed_time,
    last_update_time,
    last_queue_check_time,
    prompt_left_queue,
    showed_finalizing,
    consecutive_not_in_queue,
    last_node_executing,
    reported_nodes,
    resp,                     \* the history response of the current poll
    qresp,                    \* the queue response of the latest queue check
    emitted,                  \* the status callbacks of the latest step, in order
    outcome,                  \* how the wait ended
    retval,                   \* what the wait returned to its caller
    polls,                    \* loop iterations started
    saw_terminal,             \* history: node "30" was in the recorded outputs of some poll
    clean_misses,             \* history: consecutive queue checks that missed the job
                              \*          with no executing node in the history
    queue_listed,             \* history: the latest queue check listed the job
    poll_limit,               \* the polls explored in this wait
    \* ---- job client (queue_workflow) ----
    spc,                      \* position of queue_workflow
    retry,                    \* the loop variable of the retry loop
    retry_delay,
    posted,                   \* the responses to the POSTs issued, in order
    slept,                    \* the delays slept between attempts, in order
    submit_result,            \* what queue_workflow returned
    \* ---- downloader (download_file) ----
    dpc,                      \* position of download_file
    dl_args,                  \* the arguments of the call
    requests,                 \* the requests issued, in order
    dl_result,                \* what download_file returned
    dest_file,                \* the file at output_dir/filename
    \* ---- the pipeline (main of script 006) ----
    mpc,                      \* position of main
    stages,                   \* the stages entered, in order
    cache,                    \* args.cache
    cached_video,             \* the cache directory holds a copy of the video
    videos,                   \* the videos of the output listing
    video_index,              \* the video the download loop is at
    exit_code,                \* the exit status of the process (-1: running)
    \* ---- the avatar injector (update_workflow of script 002) ----
    apc,                      \* position of update_workflow
    audio,                    \* the audio file at audio_path
    image,                    \* the image the caller supplied
    image_found,              \* update_workflow finds the image file
    avatar_graph,             \* the workflow argument
    audio_duration,           \* the local audio_duration
    optimal,                  \* the locals optimal_width, optimal_height
    avatar_result,            \* the graph update_workflow returned
    \* ---- the graph compiler and the parameter injectors (005, 006) ----
    gpc,                      \* position of the caller
    compiler,                 \* which script's client: "005" or "006"
    heap,                     \* the widgets_values lists, by object identity
    heap0,                    \* the lists as they were before any call
    graph,                    \* the workflow G the caller holds
    params,                   \* the parameters given to the injector
    injected,                 \* the workflow the injector returned
    inject_raised,            \* the exception the injector raised, "" if none
    compile_arg,              \* the workflow given to the compiler
    compiled,                 \* what the compiler returned
    compile_raised,           \* the exception the compiler raised, "" if none
    \* ---- two text-to-video pipelines in one working directory ----
    cpc,                      \* position of each pipeline
    wall_second,              \* int(time.time())
    written,                  \* the local files written so far, with the writer
    use_cache,                \* args.cache of each pipeline
    listed_filename,          \* the filename of each pipeline's video
    pipeline_exit,            \* the exit status of each pipeline (-1: running)
    \* ---- the remote job and the status check of the avatar client ----
    job_settled,              \* the server has recorded the terminal output
    avatar_pc,                \* position of the avatar status check
    avatar_history,           \* what get_history returned
    avatar_queue,             \* the response to GET /queue
    avatar_status,            \* the result of check_workflow_status
    \* ---- one call of get_queue_status (script 006) ----
    qpc,                      \* position of the call
    engine_running,           \* the queue_running list of the response
    engine_pending,           \* the queue_pending list of the response
    queue_report              \* the record the call returned

trackerVars == <<script, wpc, now, start_time, timeout_seconds, has_callback,
                 check_interval, elapsed_time, last_update_time,
                 last_queue_check_time, prompt_left_queue, showed_finalizing,
                 consecutive_not_in_queue, last_node_executing, reported_nodes,
                 resp, qresp, emitted, outcome, retval, polls, saw_terminal,
                 clean_misses, queue_listed, poll_limit>>

submitVars == <<spc, retry, retry_delay, posted, slept, submit_result>>

downloadVars == <<dpc, dl_args, requests, dl_result, dest_file>>

mainVars == <<mpc, stages, cache, cached_video, videos, video_index, exit_code>>

avatarVars == <<apc, audio, image, image_found, avatar_graph, audio_duration,
                optimal, avatar_result>>

graphVars == <<gpc, compiler, heap, heap0, graph, params, injected, inject_raised,
               compile_arg, compiled, compile_raised>>

concurrentVars == <<cpc, wall_second, written, use_cache, listed_filename,
                    pipeline_exit>>

statusVars == <<job_settled, avatar_pc, avatar_history, avatar_queue,
                avatar_status>>

queueVars == <<qpc, engine_running, engine_pending, queue_report>>

libraryVars == <<avatarVars, graphVars, concurrentVars, statusVars, queueVars>>

vars == <<trackerVars, submitVars, downloadVars, mainVars, libraryVars>>

(***************************************************************************)
(* Small helpers                                                           *)
(***************************************************************************)
Min(a, b) == IF a < b THEN a ELSE b
Max(a, b) == IF a > b THEN a ELSE b

RECURSIVE SetMax(_)
SetMax(S) == IF S = {} THEN 0
             ELSE LET x == CHOOSE y \in S : TRUE IN Max(x, SetMax(S \ {x}))

\* str.isdigit() on the node ids the model uses
DigitNodes == {"11", "16", "37", "39", "22", "38", "52", "55", "27", "28", "30", "99"}
IsDigit(n) == n \in DigitNodes

\* the node whose recorded output is the completion signal
TerminalNode == "30"

(***************************************************************************)
(* Tables of wait_for_workflow_completion (script 006)                     *)
(***************************************************************************)
stage_percentages ==
    ("11" :> 5) @@ ("16" :> 10) @@ ("37" :> 15) @@ ("39" :> 20) @@
    ("22" :> 25) @@ ("38" :> 30) @@ ("52" :> 35) @@ ("55" :> 40) @@
    ("27" :> 50) @@ ("28" :> 85) @@ ("30" :> 95)

node_descriptions == DOMAIN stage_percentages

queue_check_interval == 5 * 1000
progress_interval == 5 * 1000
estimated_total_time == 600 * 1000
required_not_in_queue == 5
generating_progress_base == 40
generating_progress_max == 85
initial_check_interval == 5 * 1000
max_check_interval == 8 * 1000

\* progress_pct of the frame generation stage (node "27"), from elapsed_time
GeneratingProgress(elapsed, base) ==
    LET generation_time == elapsed - 60 * 1000
        progress_range == generating_progress_max - generating_progress_base
    IN  IF generation_time > 0
        THEN generating_progress_base
             + Min(progress_range, (generation_time * progress_range) \div (240 * 1000))
        ELSE base

\* a variant without the cap
TimeBasedProgressUncapped(elapsed) == (elapsed * 100) \div estimated_total_time

\* min(90, int((elapsed_time / estimated_total_time) * 100))
TimeBasedProgress(elapsed) ==
    Min(90, (elapsed * 100) \div estimated_total_time)

\* a variant of the growth without the cap
GrowIntervalUncapped(ci) == (ci * 105) \div 100

\* check_interval = min(8, check_interval * 1.05)
GrowInterval(ci) == Min(max_check_interval, (ci * 105) \div 100)


(***************************************************************************)
(* queue_workflow (script 006)                                             *)
(***************************************************************************)
max_retries == 3
initial_retry_delay == 2 * 1000

\* a variant that keeps the delay constant
NextRetryDelayConstant(d) == d

\* retry_delay *= 2
NextRetryDelay(d) == d * 2

JobIds == {"job-a", "job-b"}
NoJob == "None"

\* A response to POST /prompt: kind "200" with the prompt_id of the body
\* (NoJob: the body has none), a non-200 status code, "neterr" (the request
\* raised requests.RequestException) or "exc" (another exception)
SubmitResponse(kind, id) == [kind |-> kind, id |-> id]

\* a 200 whose body is not JSON: response.json() raises, with a requests
\* exception class that is a RequestException (requests 2.27 and later) or
\* with a plain ValueError (earlier versions); the version is not pinned
InvalidJsonRequestException == "invalid JSON (requests.JSONDecodeError)"
InvalidJsonValueError == "invalid JSON (ValueError)"
BadBodies == {InvalidJsonRequestException, InvalidJsonValueError}

\* a 200 whose body was parsed
Accepted(r) == r.kind = "200" /\ r.id \notin BadBodies

SubmitResponses ==
    {SubmitResponse("200", j) : j \in JobIds \cup {NoJob} \cup BadBodies}
    \cup {SubmitResponse(k, NoJob) : k \in {"503", "500", "400", "neterr", "exc"}}

\* the failures the retry loop handles: lines 501-517
Retried(r) ==
    \/ r.kind \in {"503", "500", "400", "neterr"}
    \/ r.kind = "200" /\ r.id = InvalidJsonRequestException
\* the transient ones among them
Transient(r) == r.kind \in {"503", "500", "neterr"}

SubmitIdle ==
    /\ spc = "idle"
    /\ retry = 0
    /\ retry_delay = initial_retry_delay
    /\ posted = <<>>
    /\ slept = <<>>
    /\ submit_result = NoJob

\* lines 449-484: the graph is compiled, validated and written to the debug
\* file; an exception there ends the call with None
SubmitPrepare(ok) ==
    /\ spc = "start"
    /\ IF ok
       THEN /\ spc' = "attempt"
            /\ retry' = 0
            /\ retry_delay' = initial_retry_delay
       ELSE /\ spc' = "done"
            /\ UNCHANGED <<retry, retry_delay>>
    /\ UNCHANGED <<posted, slept, submit_result>>

\* lines 486-519: one pass of the retry loop
SubmitAttempt(r) ==
    /\ spc = "attempt"
    /\ retry < max_retries
    /\ posted' = Append(posted, r)
    /\ IF Accepted(r)
       THEN /\ submit_result' = r.id
            /\ spc' = "done"
            /\ UNCHANGED <<retry, retry_delay, slept>>
       ELSE IF Retried(r) /\ retry < max_retries - 1
       THEN /\ slept' = Append(slept, retry_delay)
            /\ retry_delay' = NextRetryDelay(retry_delay)
            /\ retry' = retry + 1
            /\ UNCHANGED <<spc, submit_result>>
       ELSE /\ spc' = "done"
            /\ UNCHANGED <<retry, retry_delay, slept, submit_result>>

(***************************************************************************)
(* download_file (script 006)                                              *)
(***************************************************************************)
\* the arguments: is_video (the extension of filename), subfolder,
\* format_type ("" is None) and frame_rate (0 is None)
DownloadArgs ==
    [is_video : BOOLEAN, subfolder : {"", "sub"},
     format_type : {"", "video/webm"}, frame_rate : {0, 30}]

NoArgs == [is_video |-> FALSE, subfolder |-> "", format_type |-> "", frame_rate |-> 0]

\* the download URL of lines 1031-1049: endpoint and query parameters
\* (format "" and frame_rate 0: the parameter is not in the query)
DownloadUrl(a) ==
    IF a.is_video
    THEN [endpoint |-> "/api/viewvideo", subfolder |-> a.subfolder,
          format |-> IF a.format_type # "" THEN a.format_type ELSE "video/h264-mp4",
          frame_rate |-> IF a.frame_rate # 0 THEN a.frame_rate ELSE 24,
          api_key |-> FALSE]
    ELSE [endpoint |-> "/api/view", subfolder |-> a.subfolder,
          format |-> "", frame_rate |-> 0, api_key |-> FALSE]

\* direct_url = f"{download_url}&api_key={self.api_key}"
DirectUrl(url) == [url EXCEPT !.api_key = TRUE]

\* one request: the method, the transport ("session": self.session, with
\* its cookie; "plain": requests.get), the URL and how it ended:
\* "200" (the body was streamed), "200broken" (the body broke while it was
\* streamed), "non200" or "exc" (the request raised)
Request(method, transport, url, result) ==
    [method |-> method, transport |-> transport, url |-> url, result |-> result]

TransferResults == {"200", "200broken", "non200", "exc"}
WarmupResults == {"200", "non200", "exc"}

DownloadIdle ==
    /\ dpc = "idle"
    /\ dl_args = NoArgs
    /\ requests = <<>>
    /\ dl_result = "None"
    /\ dest_file = "absent"

\* what streaming a response into the destination leaves there
Written(result, file) ==
    IF result = "200" THEN "complete"
    ELSE IF result = "200broken" THEN "partial"
    ELSE file

\* a variant in which a failed warm-up gives the download up
DownloadWarmupAborting(w) ==
    /\ dpc = "start"
    /\ IF dl_args.is_video
       THEN requests' = Append(requests,
                          Request("HEAD", "session", DownloadUrl(dl_args), w))
       ELSE w = "200" /\ UNCHANGED requests
    /\ dpc' = IF w = "200" THEN "primary" ELSE "done"
    /\ UNCHANGED <<dl_args, dl_result, dest_file>>

\* lines 1054-1056: the warm-up of prepare_video_for_viewing, for a video
DownloadWarmup(w) ==
    /\ dpc = "start"
    /\ IF dl_args.is_video
       THEN requests' = Append(requests,
                          Request("HEAD", "session", DownloadUrl(dl_args), w))
       ELSE w = "200" /\ UNCHANGED requests
    /\ dpc' = "primary"
    /\ UNCHANGED <<dl_args, dl_result, dest_file>>

\* lines 1058-1081 and 1111-1113: the GET on the session
DownloadPrimary(r) ==
    /\ dpc = "primary"
    /\ requests' = Append(requests, Request("GET", "session", DownloadUrl(dl_args), r))
    /\ dest_file' = Written(r, dest_file)
    /\ dl_result' = IF r = "200" THEN "path" ELSE "None"
    /\ dpc' = IF r = "non200" THEN "fallback" ELSE "done"
    /\ UNCHANGED dl_args

\* lines 1083-1113: the direct GET with the key in the URL
DownloadFallback(r) ==
    /\ dpc = "fallback"
    /\ requests' = Append(requests,
                     Request("GET", "plain", DirectUrl(DownloadUrl(dl_args)), r))
    /\ dest_file' = Written(r, dest_file)
    /\ dl_result' = IF r = "200" THEN "path" ELSE "None"
    /\ dpc' = "done"
    /\ UNCHANGED dl_args

DownloadStep ==
    \/ \E w \in WarmupResults : DownloadWarmup(w)
    \/ \E r \in TransferResults : DownloadPrimary(r)
    \/ \E r \in TransferResults : DownloadFallback(r)

\* the pipeline variables while no pipeline is running
MainIdle ==
    /\ mpc = "idle"
    /\ stages = <<>>
    /\ cache = FALSE
    /\ cached_video = FALSE
    /\ videos = <<>>
    /\ video_index = 0
    /\ exit_code = -1

(***************************************************************************)
(* The avatar injector (script 002): get_audio_duration,                   *)
(* get_optimal_dimensions, update_workflow                                 *)
(***************************************************************************)
Abs(x) == IF x < 0 THEN 0 - x ELSE x

\* the audio file: loadable is FALSE when mutagen's File returns None or
\* raises; length is audio.info.length in milliseconds
Audio(loadable, length) == [loadable |-> loadable, length |-> length]

\* a variant without the rounding up
get_audio_duration_truncating(a) ==
    IF ~a.loadable THEN 5 ELSE (a.length \div 1000) + 1

\* rounded_duration = int(raw_duration) + (1 if raw_duration % 1 > 0 else 0)
\* final_duration = rounded_duration + 1; 5 when the file cannot be read
get_audio_duration(a) ==
    IF ~a.loadable THEN 5
    ELSE (a.length \div 1000) + (IF a.length % 1000 > 0 THEN 1 ELSE 0) + 1

\* the image file: readable is FALSE when Image.open raises
Img(readable, width, height) ==
    [readable |-> readable, width |-> width, height |-> height]

LANDSCAPE == <<1024, 576>>
PORTRAIT == <<576, 1024>>
SQUARE == <<576, 576>>

\* the three differences abs(width / height - r), each times 144 * height
landscape_diff(w, h) == 16 * Abs(9 * w - 16 * h)
portrait_diff(w, h) == 9 * Abs(16 * w - 9 * h)
square_diff(w, h) == 144 * Abs(w - h)

\* a variant whose comparisons are strict
get_optimal_dimensions_strict(img) ==
    IF ~img.readable \/ img.height = 0 THEN SQUARE
    ELSE LET l == landscape_diff(img.width, img.height)
             p == portrait_diff(img.width, img.height)
             q == square_diff(img.width, img.height)
         IN  IF l < Min(p, q) THEN LANDSCAPE
             ELSE IF p < Min(l, q) THEN PORTRAIT
             ELSE SQUARE

get_optimal_dimensions(img) ==
    IF ~img.readable \/ img.height = 0 THEN SQUARE
    ELSE LET l == landscape_diff(img.width, img.height)
             p == portrait_diff(img.width, img.height)
             q == square_diff(img.width, img.height)
         IN  IF l <= Min(p, q) THEN LANDSCAPE
             ELSE IF p <= Min(l, q) THEN PORTRAIT
             ELSE SQUARE

\* the JSON values of widget lists and inputs: a string, a number, a boolean,
\* None, and the two-element list [source node id, output index] of a link
Str(x) == <<"str", x, 0>>
Num(n) == <<"int", "", n>>
Bool(b) == <<"bool", "", IF b THEN 1 ELSE 0>>
None == <<"None", "", 0>>
Ref(source, index) == <<"list", source, index>>

\* the truth value Python gives a JSON scalar
Truthy(v) == v \notin {None, Str(""), Num(0), Bool(FALSE)}

EmptyDict == [k \in {} |-> None]

\* d[k] = v
Put(d, k, v) == (k :> v) @@ d

\* a node of the execution-form graph
AvatarNode(class_type, inputs) == [class_type |-> class_type, inputs |-> inputs]

ImageName == Str("photo.png")
AudioBasename == Str("voice.mp3")
AudioInputPath == Str("input/voice.mp3")

\* lines 117-151: the body of the loop over the nodes
update_node(node_id, node, dur, dims) ==
    IF node.class_type = "LoadImage"
    THEN [node EXCEPT !.inputs = Put(@, "image", ImageName)]
    ELSE IF node.class_type = "Image Resize"
    THEN [node EXCEPT !.inputs = Put(Put(@, "resize_width", Num(dims[1])),
                                     "resize_height", Num(dims[2]))]
    ELSE IF node.class_type \in {"LoadAudio", "VHS_LoadAudio"}
    THEN IF "audio" \in DOMAIN node.inputs
         THEN [node EXCEPT !.inputs = Put(@, "audio", AudioBasename)]
         ELSE IF "audio_file" \in DOMAIN node.inputs
         THEN [node EXCEPT !.inputs = Put(@, "audio_file", AudioInputPath)]
         ELSE node
    ELSE IF node.class_type = "SONIC_PreData"
              /\ ("duration" \in DOMAIN node.inputs \/ node_id = "33")
    THEN [node EXCEPT !.inputs = Put(@, "duration", Num(dur))]
    ELSE node

\* lines 110-116: the dimensions when the image file is found, else the
\* default
optimal_dimensions(found, img) ==
    IF found THEN get_optimal_dimensions(img) ELSE SQUARE

AvatarNodeChoices ==
    {AvatarNode("LoadImage", "image" :> Str("old.png")),
     AvatarNode("Image Resize",
                ("resize_width" :> Num(576)) @@ ("resize_height" :> Num(576))),
     AvatarNode("Image Resize", "mode" :> Str("resize")),
     AvatarNode("LoadAudio", "audio" :> Str("old.mp3")),
     AvatarNode("VHS_LoadAudio", "audio_file" :> Str("input/old.mp3")),
     AvatarNode("SONIC_PreData", "duration" :> Num(3)),
     AvatarNode("SONIC_PreData", "fps" :> Num(25)),
     AvatarNode("SaveVideo", "prefix" :> Str("out"))}

AvatarNodeIds == {"33", "12"}
AvatarGraphs == [AvatarNodeIds -> AvatarNodeChoices]

EmptyAvatarGraph == [id \in {} |-> AvatarNode("", <<>>)]
NoAudio == Audio(FALSE, 0)
NoImage == Img(FALSE, 0, 0)

AvatarIdle ==
    /\ apc = "idle"
    /\ audio = NoAudio
    /\ image = NoImage
    /\ image_found = FALSE
    /\ avatar_graph = EmptyAvatarGraph
    /\ audio_duration = 0
    /\ optimal = SQUARE
    /\ avatar_result = EmptyAvatarGraph

\* lines 86-154: update_workflow
AvatarUpdate ==
    /\ apc = "start"
    /\ apc' = "done"
    /\ audio_duration' = get_audio_duration(audio)
    /\ optimal' = optimal_dimensions(image_found, image)
    /\ avatar_result' =
           [id \in DOMAIN avatar_graph |->
               update_node(id, avatar_graph[id], audio_duration', optimal')]
    /\ UNCHANGED <<audio, image, image_found, avatar_graph>>

(***************************************************************************)
(* Workflows: the visual form, the execution form, and the compiler        *)
(* _transform_workflow_to_api_format of scripts 005 and 006                *)
(***************************************************************************)
\* a node of the visual form; class_type "" and title "" stand for an absent
\* key, widgets_values is the identity of the list (NoList: no such key),
\* inputs is the list of input slots
VisualNode(id, type, title, widgets_values, inputs) ==
    [id |-> id, type |-> type, class_type |-> "", title |-> title,
     widgets_values |-> widgets_values, inputs |-> inputs]

NoList == 0

\* an input slot; link NoLink stands for None
Slot(name, link) == [name |-> name, link |-> link]

NoLink == 0

\* a record of the execution form; title "" stands for no _meta
ExecNode(class_type, title, inputs) ==
    [class_type |-> class_type, title |-> title, inputs |-> inputs]

\* a workflow dict: the keys "nodes" (nodes_kind "absent", "list" or "dict"),
\* "links", "prompt" (empty when absent) and the node-id keys of an
\* execution-form graph (entries)
Workflow(nodes_kind, nodes, nodes_map, links, prompt, entries) ==
    [nodes_kind |-> nodes_kind, nodes |-> nodes, nodes_map |-> nodes_map,
     links |-> links, prompt |-> prompt, entries |-> entries]

VisualGraph(nodes, links) ==
    Workflow("list", nodes, EmptyDict, links, EmptyDict, EmptyDict)

ExecGraph(entries) == Workflow("absent", <<>>, EmptyDict, <<>>, EmptyDict, entries)

Digit(n) ==
    CASE n = 0 -> "0" [] n = 1 -> "1" [] n = 2 -> "2" [] n = 3 -> "3"
      [] n = 4 -> "4" [] n = 5 -> "5" [] n = 6 -> "6" [] n = 7 -> "7"
      [] n = 8 -> "8" [] n = 9 -> "9"

\* str(node["id"]) for an id below 100
IdStr(n) == IF n < 10 THEN Digit(n) ELSE Digit(n \div 10) \o Digit(n % 10)

\* 005 lines 304-359: the inputs taken from the widget list
widget_inputs_005(type, title, wv) ==
    IF type = "CLIPTextEncode"
    THEN IF title \in {"Positive Prompt", "Negative Prompt"}
         THEN "text" :> (IF wv # <<>> THEN wv[1] ELSE Str(""))
         ELSE EmptyDict
    ELSE IF type = "KSampler"
    THEN IF Len(wv) >= 7
         THEN ("seed" :> wv[1]) @@ ("steps" :> wv[3]) @@ ("cfg" :> wv[4])
                  @@ ("sampler_name" :> wv[5]) @@ ("scheduler" :> wv[6])
                  @@ ("denoise" :> wv[7])
         ELSE EmptyDict
    ELSE IF type \in {"EmptyLatentImage", "EmptySD3LatentImage"}
    THEN IF Len(wv) >= 3
         THEN ("width" :> wv[1]) @@ ("height" :> wv[2]) @@ ("batch_size" :> wv[3])
         ELSE EmptyDict
    ELSE IF type = "SaveImage"
    THEN IF wv # <<>> THEN "filename_prefix" :> wv[1] ELSE EmptyDict
    ELSE IF type = "VAELoader"
    THEN IF wv # <<>> THEN "vae_name" :> wv[1] ELSE EmptyDict
    ELSE IF type = "UNETLoader"
    THEN IF Len(wv) >= 2
         THEN ("unet_name" :> wv[1])
                  @@ ("weight_dtype" :> (IF Truthy(wv[2]) THEN wv[2] ELSE Str("default")))
         ELSE EmptyDict
    ELSE IF type = "QuadrupleCLIPLoader"
    THEN IF Len(wv) >= 4
         THEN ("clip_name1" :> wv[1]) @@ ("clip_name2" :> wv[2])
                  @@ ("clip_name3" :> wv[3]) @@ ("clip_name4" :> wv[4])
         ELSE EmptyDict
    ELSE IF type = "ModelSamplingSD3"
    THEN "shift" :> (IF wv # <<>> THEN wv[1] ELSE Num(5))
    ELSE EmptyDict

\* 006 lines 571-598 and 664-670: the inputs taken from the widget list, for
\* the node types WanVideoTextEncode, WanVideoEmptyEmbeds, WanVideoVAELoader
\* and the types the compiler has no schema for
widget_inputs_006(type, title, wv) ==
    IF type = "WanVideoTextEncode"
    THEN IF Len(wv) >= 2
         THEN ("positive_prompt" :> wv[1]) @@ ("negative_prompt" :> wv[2])
                  @@ ("force_zeros" :> (IF Len(wv) > 2 THEN wv[3] ELSE Bool(TRUE)))
         ELSE EmptyDict
    ELSE IF type = "WanVideoEmptyEmbeds"
    THEN IF Len(wv) >= 3
         THEN ("width" :> wv[1]) @@ ("height" :> wv[2]) @@ ("num_frames" :> wv[3])
         ELSE EmptyDict
    ELSE IF type = "WanVideoVAELoader"
    THEN IF Len(wv) >= 2
         THEN ("model_name" :> wv[1]) @@ ("precision" :> wv[2])
         ELSE EmptyDict
    ELSE EmptyDict

\* a variant that takes the last link of the table with that id
FindLastLink(links, link_id) ==
    IF \E j \in 1..Len(links) : links[j][1] = link_id
    THEN links[CHOOSE j \in 1..Len(links) :
                   /\ links[j][1] = link_id
                   /\ \A k \in (j + 1)..Len(links) : links[k][1] # link_id]
    ELSE <<>>

\* the first link of the table whose id is link_id, <<>> when there is none
FindLink(links, link_id) ==
    IF \E j \in 1..Len(links) : links[j][1] = link_id
    THEN links[CHOOSE j \in 1..Len(links) :
                   /\ links[j][1] = link_id
                   /\ \A k \in 1..(j - 1) : links[k][1] # link_id]
    ELSE <<>>

RECURSIVE link_inputs(_, _, _, _)
\* 005 lines 363-375, 006 lines 711-723: the loop over the input slots from
\* slot i on; a slot whose link is not in the table is passed over
link_inputs(slots, links, i, inputs) ==
    IF i > Len(slots) THEN inputs
    ELSE LET link == FindLink(links, slots[i].link)
         IN  IF slots[i].link # NoLink /\ link # <<>>
             THEN link_inputs(slots, links, i + 1,
                              Put(inputs, slots[i].name, Ref(IdStr(link[2]), link[3])))
             ELSE link_inputs(slots, links, i + 1, inputs)

\* _process_node_inputs: the widget values, then the links
process_node_inputs(which, h, node, workflow) ==
    LET widgets ==
            IF node.widgets_values = NoList THEN EmptyDict
            ELSE IF which = "005"
                 THEN widget_inputs_005(node.type, node.title, h[node.widgets_values])
                 ELSE widget_inputs_006(node.type, node.title, h[node.widgets_values])
    IN  IF workflow.links # <<>>
        THEN link_inputs(node.inputs, workflow.links, 1, widgets)
        ELSE widgets

RECURSIVE api_prompt_from(_, _, _, _, _)
\* the loop over workflow["nodes"] from node i on
api_prompt_from(which, h, workflow, i, api_prompt) ==
    IF i > Len(workflow.nodes) THEN api_prompt
    ELSE LET node == workflow.nodes[i]
             node_config ==
                 ExecNode(IF node.class_type # "" THEN node.class_type ELSE node.type,
                          node.title,
                          process_node_inputs(which, h, node, workflow))
         IN  IF node.type = "Note"
             THEN api_prompt_from(which, h, workflow, i + 1, api_prompt)
             ELSE api_prompt_from(which, h, workflow, i + 1,
                                  Put(api_prompt, IdStr(node.id), node_config))

\* workflow.get("nodes") is falsy
NoNodes(workflow) ==
    \/ workflow.nodes_kind = "absent"
    \/ workflow.nodes_kind = "list" /\ workflow.nodes = <<>>
    \/ workflow.nodes_kind = "dict" /\ workflow.nodes_map = EmptyDict

\* a variant that unwraps "prompt" whether or not the key is there
api_format_unwrapping(workflow) == ExecGraph(workflow.prompt)

\* the branch for a workflow without nodes: workflow["prompt"] if it is
\* there and not empty, else the workflow itself
api_format(workflow) ==
    IF workflow.prompt # EmptyDict THEN ExecGraph(workflow.prompt) ELSE workflow

Returned(value) == [raised |-> "", value |-> value]
Raised(exception, workflow) == [raised |-> exception, value |-> workflow]

\* _transform_workflow_to_api_format; script 005 has no branch for a dict
\* under "nodes" and indexes the dict's keys, which are strings
transform_workflow_to_api_format(which, h, workflow) ==
    IF NoNodes(workflow) THEN Returned(api_format(workflow))
    ELSE IF workflow.nodes_kind = "dict"
    THEN IF which = "006" THEN Returned(ExecGraph(workflow.nodes_map))
         ELSE Raised("TypeError", workflow)
    ELSE Returned(ExecGraph(api_prompt_from(which, h, workflow, 1, EmptyDict)))

(***************************************************************************)
(* The parameter injectors: validate_workflow and                          *)
(* update_text_to_image_workflow of script 005, update_workflow of 006     *)
(***************************************************************************)
\* the identities of the widget lists of a workflow's nodes
Lists(workflow) ==
    {workflow.nodes[i].widgets_values : i \in 1..Len(workflow.nodes)} \ {NoList}

\* the first identity no object has yet
NextFree(h) == IF DOMAIN h = {} THEN 1 ELSE (CHOOSE a \in DOMAIN h : \A b \in DOMAIN h : b <= a) + 1

CopyResult(h, workflow) == [heap |-> h, value |-> workflow]

\* a variant that returns the very same objects
same_objects(h, workflow) == CopyResult(h, workflow)

\* json.loads(json.dumps(workflow)): equal values in new objects; the list
\* of node i gets the identity NextFree(h) + i - 1
deep_copy(h, workflow) ==
    LET base == NextFree(h) - 1
        copied == {i \in 1..Len(workflow.nodes) : workflow.nodes[i].widgets_values # NoList}
    IN  CopyResult(
            [a \in DOMAIN h \cup {base + i : i \in copied} |->
                IF a \in DOMAIN h THEN h[a]
                ELSE h[workflow.nodes[a - base].widgets_values]],
            [workflow EXCEPT !.nodes =
                [i \in 1..Len(workflow.nodes) |->
                    IF i \in copied
                    THEN [workflow.nodes[i] EXCEPT !.widgets_values = base + i]
                    ELSE workflow.nodes[i]]])

IsPositivePrompt(node) == node.type = "CLIPTextEncode" /\ node.title = "Positive Prompt"
IsNegativePrompt(node) == node.type = "CLIPTextEncode" /\ node.title = "Negative Prompt"
IsSampler(node) == node.type \in {"KSampler", "SONICSampler"}
IsLatentImage(node) == node.type \in {"EmptySD3LatentImage", "EmptyLatentImage"}

\* the required node types validate_workflow does not find
MissingRequired(nodes) ==
    {t \in {"positive_prompt", "negative_prompt", "sampler", "latent_image"} :
        ~\E i \in 1..Len(nodes) :
            \/ t = "positive_prompt" /\ IsPositivePrompt(nodes[i])
            \/ t = "negative_prompt" /\ IsNegativePrompt(nodes[i])
            \/ t = "sampler" /\ IsSampler(nodes[i])
            \/ t = "latent_image" /\ IsLatentImage(nodes[i])}

\* a workflow dict with no key at all
EmptyWorkflow(workflow) ==
    /\ workflow.nodes_kind = "absent"
    /\ workflow.links = <<>>
    /\ workflow.prompt = EmptyDict
    /\ workflow.entries = EmptyDict

\* validate_workflow: the errors it collects
validate_workflow(workflow) ==
    IF EmptyWorkflow(workflow) THEN {"Workflow is null or undefined"}
    ELSE IF workflow.nodes_kind = "absent" THEN {"Workflow is missing nodes property"}
    ELSE IF workflow.nodes_kind = "dict" THEN {"Workflow nodes is not an array"}
    ELSE (IF workflow.nodes = <<>> THEN {"Workflow nodes array is empty"} ELSE {})
             \cup MissingRequired(workflow.nodes)

Kept(wv) == [raised |-> "", wv |-> wv]
IndexError(wv) == [raised |-> "IndexError", wv |-> wv]

\* a variant that tells the text nodes apart by type alone
update_widgets_untitled(node, wv, p) ==
    IF node.type = "CLIPTextEncode" /\ wv # <<>>
    THEN Kept([wv EXCEPT ![1] = p.positive_prompt])
    ELSE Kept(wv)

\* a variant that replaces the list of a latent image by the two dimensions
update_widgets_padding(node, wv, p) ==
    IF node.type \in {"EmptyLatentImage", "EmptySD3LatentImage"}
    THEN Kept(<<p.width, p.height>>)
    ELSE Kept(wv)

\* 005 lines 170-218: what the loop body does to the widget list of one node
update_widgets_005(node, wv, p) ==
    IF IsPositivePrompt(node)
    THEN IF wv = <<>> THEN IndexError(wv) ELSE Kept([wv EXCEPT ![1] = p.positive_prompt])
    ELSE IF IsNegativePrompt(node)
    THEN IF wv = <<>> THEN IndexError(wv) ELSE Kept([wv EXCEPT ![1] = p.negative_prompt])
    ELSE IF node.type = "KSampler"
    THEN LET seeded == IF p.seed # None /\ Len(wv) > 0
                       THEN [wv EXCEPT ![1] = p.seed] ELSE wv
         IN  Kept(IF Len(wv) > 2 THEN [seeded EXCEPT ![3] = p.steps] ELSE seeded)
    ELSE IF node.type \in {"EmptyLatentImage", "EmptySD3LatentImage"}
    THEN Kept(IF Len(wv) >= 2
              THEN [wv EXCEPT ![1] = p.width, ![2] = p.height] ELSE wv)
    ELSE IF node.type = "SaveImage"
    THEN Kept(IF wv # <<>> THEN [wv EXCEPT ![1] = p.filename] ELSE wv)
    ELSE Kept(wv)

\* 006 lines 185-190: the same for update_workflow
update_widgets_006(node, wv, p) ==
    IF node.type = "WanVideoTextEncode" /\ Len(wv) >= 1
    THEN Kept([wv EXCEPT ![1] = p.positive_prompt])
    ELSE Kept(wv)

RECURSIVE update_nodes(_, _, _, _, _)
\* the loop over updated_workflow["nodes"] from node i on; an exception ends
\* it
update_nodes(which, h, nodes, i, p) ==
    IF i > Len(nodes) THEN [raised |-> "", heap |-> h]
    ELSE IF nodes[i].widgets_values = NoList
    THEN update_nodes(which, h, nodes, i + 1, p)
    ELSE LET list == nodes[i].widgets_values
             r == IF which = "005" THEN update_widgets_005(nodes[i], h[list], p)
                  ELSE update_widgets_006(nodes[i], h[list], p)
         IN  IF r.raised # "" THEN [raised |-> r.raised, heap |-> h]
             ELSE update_nodes(which, [h EXCEPT ![list] = r.wv], nodes, i + 1, p)

Injected(raised, h, workflow) == [raised |-> raised, heap |-> h, value |-> workflow]

\* update_text_to_image_workflow
update_text_to_image_workflow(h, workflow, p) ==
    IF validate_workflow(workflow) # {} THEN Injected("ValueError", h, workflow)
    ELSE LET copy == deep_copy(h, workflow)
             r == update_nodes("005", copy.heap, copy.value.nodes, 1, p)
         IN  Injected(r.raised, r.heap, copy.value)

\* update_workflow of script 006; the records of a dict under "nodes" have
\* no "type" key and are passed over
update_workflow(h, workflow, p) ==
    LET copy == deep_copy(h, workflow)
        r == update_nodes("006", copy.heap, copy.value.nodes, 1, p)
    IN  Injected(r.raised, r.heap, copy.value)

Params(seed) ==
    [positive_prompt |-> Str("a red fox"), negative_prompt |-> Str("blurry"),
     width |-> Num(512), height |-> Num(768), seed |-> seed, steps |-> Num(20),
     filename |-> Str("a_red_fox_20250101-000000")]

NoParams == Params(None)

NoWorkflow == ExecGraph(EmptyDict)

GraphIdle ==
    /\ gpc = "idle"
    /\ compiler = "005"
    /\ heap = <<>>
    /\ heap0 = <<>>
    /\ graph = NoWorkflow
    /\ params = NoParams
    /\ injected = NoWorkflow
    /\ inject_raised = ""
    /\ compile_arg = NoWorkflow
    /\ compiled = NoWorkflow
    /\ compile_raised = ""

\* the injector of the script is called on G
GraphInject ==
    /\ gpc = "start"
    /\ LET r == IF compiler = "005"
                THEN update_text_to_image_workflow(heap, graph, params)
                ELSE update_workflow(heap, graph, params)
       IN  /\ heap' = r.heap
           /\ injected' = r.value
           /\ inject_raised' = r.raised
           /\ gpc' = IF r.raised = "" THEN "injected" ELSE "raised"
    /\ UNCHANGED <<compiler, heap0, graph, params, compile_arg, compiled, compile_raised>>

\* queue_workflow compiles the workflow it is given: G, or the injector's
\* result
GraphCompile ==
    /\ gpc \in {"start", "injected"}
    /\ LET arg == IF gpc = "start" THEN graph ELSE injected
           r == transform_workflow_to_api_format(compiler, heap, arg)
       IN  /\ compile_arg' = arg
           /\ compiled' = r.value
           /\ compile_raised' = r.raised
    /\ gpc' = "compiled"
    /\ UNCHANGED <<compiler, heap, heap0, graph, params, injected, inject_raised>>

\* the caller changes a widget list of the injector's result
GraphMutateResult(list) ==
    /\ gpc = "injected"
    /\ list \in Lists(injected)
    /\ heap' = [heap EXCEPT ![list] = Append(@, Str("changed"))]
    /\ gpc' = "mutated"
    /\ UNCHANGED <<compiler, heap0, graph, params, injected, inject_raised,
                   compile_arg, compiled, compile_raised>>

(***************************************************************************)
(* Two text-to-video pipelines (script 006) running in one working         *)
(* directory: the local files queue_workflow and main write                *)
(***************************************************************************)
Pipelines == {1, 2}

\* a local file: the directory under the working directory, the name, and
\* for the debug payload the second in its name
File(dir, name, stamp) == [dir |-> dir, name |-> name, stamp |-> stamp]

\* comfyui_client.py lines 471-473
debug_file(second) == File("debug", "workflow_payload", second)

\* main.py line 181
cache_file(filename) == File("cache", filename, 0)

\* the path download_file writes
output_file(filename) == File("output", filename, 0)

Write(file, pipeline) == [file |-> file, by |-> pipeline]

Filenames == {"WanVideo_00001.mp4", "WanVideo_00002.mp4"}

\* load_video_from_base64 finds the cache file
CacheHit(filename) == \E w \in written : w.file = cache_file(filename)

ConcurrentIdle ==
    /\ cpc = [p \in Pipelines |-> "idle"]
    /\ wall_second = 0
    /\ written = {}
    /\ use_cache = [p \in Pipelines |-> FALSE]
    /\ listed_filename = [p \in Pipelines |-> ""]
    /\ pipeline_exit = [p \in Pipelines |-> -1]

\* no status check of the avatar client is running, and the remote job has
\* not recorded its terminal output
StatusIdle ==
    /\ job_settled = FALSE
    /\ avatar_pc = "idle"
    /\ avatar_history = [kind |-> "none"]
    /\ avatar_queue = ""
    /\ avatar_status = [is_complete |-> FALSE]

\* no call of get_queue_status is being followed
QueueIdle ==
    /\ qpc = "idle"
    /\ engine_running = <<>>
    /\ engine_pending = <<>>
    /\ queue_report = [is_in_queue |-> FALSE]

LibraryIdle == AvatarIdle /\ GraphIdle /\ ConcurrentIdle /\ StatusIdle /\ QueueIdle

\* queue_workflow up to the POST: the payload is dumped to the debug file
PipelineQueue(p) ==
    /\ cpc[p] = "start"
    /\ written' = written \cup {Write(debug_file(wall_second), p)}
    /\ cpc' = [cpc EXCEPT ![p] = "queued"]
    /\ UNCHANGED <<wall_second, use_cache, listed_filename, pipeline_exit>>

\* the job completes and get_output_files lists the video of node 30
PipelineList(p, filename) ==
    /\ cpc[p] = "queued"
    /\ listed_filename' = [listed_filename EXCEPT ![p] = filename]
    /\ cpc' = [cpc EXCEPT ![p] = "listed"]
    /\ UNCHANGED <<wall_second, written, use_cache, pipeline_exit>>

\* main.py lines 345-391: download, store in the cache, or fall back to it
PipelineDownload(p, ok) ==
    /\ cpc[p] = "listed"
    /\ cpc' = [cpc EXCEPT ![p] = "exited"]
    /\ IF ok
       THEN /\ written' = written
                   \cup {Write(output_file(listed_filename[p]), p)}
                   \cup (IF use_cache[p]
                         THEN {Write(cache_file(listed_filename[p]), p)} ELSE {})
            /\ pipeline_exit' = [pipeline_exit EXCEPT ![p] = 0]
       ELSE /\ written' = written
            /\ pipeline_exit' =
                   [pipeline_exit EXCEPT
                       ![p] = IF use_cache[p] /\ CacheHit(listed_filename[p])
                              THEN 0 ELSE 1]
    /\ UNCHANGED <<wall_second, use_cache, listed_filename>>

(***************************************************************************)
(* Remote responses                                                        *)
(***************************************************************************)
\* A response to GET /history/<prompt_id>.  http is "200", "non200" or "exc"
\* (the request raised).  keyed: the body has the prompt id as a key; the
\* p_ fields are those of history_data[prompt_id], the t_ fields those of
\* history_data itself.
HistoryResponse(http, keyed, completed, status_error, t_error, p_has_outputs, p_outputs, t_has_outputs, t_outputs, p_has_executing, p_executing, t_has_executing, t_executing) ==
    [http |-> http, keyed |-> keyed, completed |-> completed,
     status_error |-> status_error, t_error |-> t_error,
     p_has_outputs |-> p_has_outputs, p_outputs |-> p_outputs,
     t_has_outputs |-> t_has_outputs, t_outputs |-> t_outputs,
     p_has_executing |-> p_has_executing, p_executing |-> p_executing,
     t_has_executing |-> t_has_executing, t_executing |-> t_executing]

FailedHistory(http) ==
    HistoryResponse(http, FALSE, FALSE, FALSE, FALSE,
                    FALSE, {}, FALSE, {}, FALSE, <<>>, FALSE, <<>>)

NoHistory == FailedHistory("none")

\* recorded outputs of a response: (present, node ids)
Absent == [has |-> FALSE, nodes |-> {}]
Out(S) == [has |-> TRUE, nodes |-> S]
Partial == {"16", "27"}
Finished == {"16", "27", "30"}
OutputChoices == {Absent, Out(Partial), Out(Finished)}

NoExec == [has |-> FALSE, nodes |-> <<>>]
Exec(s) == [has |-> TRUE, nodes |-> s]
ExecChoices == {NoExec, Exec(<<"27">>)}

\* The responses explored: a failed request, a body keyed by the prompt id
\* (status, outputs and executing inside the entry), or a flat body
\* (error, outputs and executing at the top level).
HistoryResponses ==
    {FailedHistory("non200"), FailedHistory("exc")}
    \cup
    {HistoryResponse("200", TRUE, c, e, FALSE, o.has, o.nodes,
                     FALSE, {}, x.has, x.nodes, FALSE, <<>>) :
        c \in BOOLEAN, e \in BOOLEAN, o \in OutputChoices, x \in ExecChoices}
    \cup
    {HistoryResponse("200", FALSE, FALSE, FALSE, te, FALSE, {},
                     o.has, o.nodes, FALSE, <<>>, x.has, x.nodes) :
        te \in BOOLEAN, o \in OutputChoices, x \in ExecChoices}

\* A response to GET /prompt as get_queue_status reads it.  kind is "exc"
\* (the request raised), "non200", "absent" (the job is in neither list),
\* "pending" or "running"; node is progress.node of a running job.
QueueResponse(kind, has_node, node) ==
    [kind |-> kind, has_node |-> has_node, node |-> node]

NoQueue == QueueResponse("none", FALSE, "")

QueueResponses ==
    {QueueResponse(k, FALSE, "") : k \in {"exc", "non200", "absent", "pending", "running"}}
    \cup {QueueResponse("running", TRUE, n) : n \in {"27", "30", "ui"}}

(***************************************************************************)
(* check_workflow_status (script 006)                                      *)
(***************************************************************************)
\* the result tuple (is_complete, history_data, error_message); error is
\* "none", "Error:" (the message holds the text "Error:") or "other"
StatusResult(is_complete, has_data, error) ==
    [is_complete |-> is_complete, has_data |-> has_data, error |-> error]

\* executed_nodes of lines 809-819
ExecutedNodes(h) ==
    IF h.keyed /\ h.p_has_outputs THEN h.p_outputs
    ELSE IF h.t_has_outputs THEN h.t_outputs
    ELSE {}

\* a variant that takes any recorded output for completion
check_workflow_status_any_output(h) ==
    IF h.http # "200" THEN StatusResult(FALSE, FALSE, "other")
    ELSE IF h.keyed /\ h.completed THEN StatusResult(TRUE, TRUE, "none")
    ELSE IF h.keyed /\ h.status_error THEN StatusResult(FALSE, TRUE, "Error:")
    ELSE IF h.t_error THEN StatusResult(TRUE, TRUE, "other")
    ELSE StatusResult(ExecutedNodes(h) # {}, TRUE, "none")

check_workflow_status(h) ==
    IF h.http = "exc" THEN StatusResult(FALSE, FALSE, "other")
    ELSE IF h.http # "200" THEN StatusResult(FALSE, FALSE, "other")
    ELSE IF h.keyed /\ h.completed THEN StatusResult(TRUE, TRUE, "none")
    ELSE IF h.keyed /\ h.status_error THEN StatusResult(FALSE, TRUE, "Error:")
    ELSE IF h.keyed /\ h.p_has_outputs /\ TerminalNode \in h.p_outputs
         THEN StatusResult(TRUE, TRUE, "none")
    ELSE IF h.t_error THEN StatusResult(TRUE, TRUE, "other")
    ELSE IF h.t_has_outputs /\ TerminalNode \in h.t_outputs
         THEN StatusResult(TRUE, TRUE, "none")
    ELSE StatusResult(TerminalNode \in ExecutedNodes(h), TRUE, "none")

(***************************************************************************)
(* get_queue_status (script 006)                                           *)
(***************************************************************************)
\* the queue_info record; raised: the function ended with an exception
\* (the except handler returns queue_info, which is unbound when the
\* request itself raised)
QueueInfo(raised, is_in_queue, queue_position, queue_running, has_node, node) ==
    [raised |-> raised, is_in_queue |-> is_in_queue,
     queue_position |-> queue_position, queue_running |-> queue_running,
     has_current_node |-> has_node, current_node |-> node]

\* queue_position None is -1
get_queue_status(q) ==
    IF q.kind = "exc" THEN QueueInfo(TRUE, FALSE, -1, FALSE, FALSE, "")
    ELSE IF q.kind = "running" THEN QueueInfo(FALSE, TRUE, 0, TRUE, q.has_node, q.node)
    ELSE IF q.kind = "pending" THEN QueueInfo(FALSE, TRUE, 1, FALSE, FALSE, "")
    ELSE QueueInfo(FALSE, FALSE, -1, FALSE, FALSE, "")

(***************************************************************************)
(* wait_for_workflow_completion (script 006)                               *)
(***************************************************************************)
\* one call of status_callback: "<pct>% - <kind> ..."; the error report
\* "Error: ..." carries no percentage (pct -1)
Status(pct, kind) == [pct |-> pct, kind |-> kind]

Callback(pct, kind) == IF has_callback THEN <<Status(pct, kind)>> ELSE <<>>

\* what the caller of the wait receives for each way the wait can end
ReturnValue(o) ==
    CASE o = "Complete" -> "True"
      [] o = "Errored"  -> "False"
      [] o = "TimedOut" -> "False"
      [] o = "Raised"   -> "exception"

TimeoutChoices == {0, MaxTimeoutMinutes}

\* outputs of lines 1295-1303
WaitOutputs(h) ==
    IF h.http # "200" THEN {}
    ELSE IF h.keyed /\ h.p_has_outputs THEN h.p_outputs
    ELSE IF h.t_has_outputs THEN h.t_outputs
    ELSE {}

\* executing of lines 1296-1309
WaitExecuting(h) ==
    IF h.http # "200" THEN <<>>
    ELSE IF h.keyed /\ h.p_has_executing THEN h.p_executing
    ELSE IF h.t_has_executing THEN h.t_executing
    ELSE <<>>

\* the progress summary of lines 1318-1345, at time t
ProgressSummary(outputs, t) ==
    LET executed_nodes == {n \in outputs : IsDigit(n)}
        completed_percentage ==
            SetMax({stage_percentages[n] : n \in executed_nodes \cap DOMAIN stage_percentages})
        new_completed == executed_nodes \ reported_nodes
    IN  IF outputs # {} /\ has_callback /\ t - last_update_time > progress_interval
           /\ new_completed # {}
        THEN [emit |-> <<Status(completed_percentage, "Completed")>>,
              reported |-> reported_nodes \cup new_completed,
              lut |-> t]
        ELSE [emit |-> <<>>, reported |-> reported_nodes, lut |-> last_update_time]

\* progress_pct of the running branch, lines 1374-1405
RunningProgress(info, elapsed) ==
    LET cn == info.current_node
        staged == info.has_current_node /\ cn \in DOMAIN stage_percentages
    IN  IF staged /\ IsDigit(cn)
        THEN IF cn = "27" THEN GeneratingProgress(elapsed, stage_percentages[cn])
             ELSE stage_percentages[cn]
        ELSE IF staged THEN stage_percentages[cn]
        ELSE TimeBasedProgress(elapsed)

\* a variant that keeps counting while nodes are executing
NotInQueueCountNoReset(executing, count) == count + 1

\* consecutive_not_in_queue after a check that did not find the job,
\* lines 1420-1427
NotInQueueCount(executing, count) ==
    IF executing # <<>> THEN 0 ELSE count + 1

\* the loop over the executing nodes, lines 1476-1501, at time t:
\* st = [lne: last_node_executing, lut: last_update_time, emit: callbacks]
RECURSIVE ExecutingLoop(_, _, _, _)
ExecutingLoop(executing, st, t, elapsed) ==
    IF executing = <<>> THEN st
    ELSE LET node_id == Head(executing)
             report == /\ IsDigit(node_id)
                       /\ node_id \in node_descriptions
                       /\ t - st.lut > progress_interval
             base == IF node_id \in DOMAIN stage_percentages
                     THEN stage_percentages[node_id] ELSE 50
             progress_pct == IF node_id = "27" THEN GeneratingProgress(elapsed, base)
                             ELSE base
             st1 == [lne |-> IF IsDigit(node_id) THEN node_id ELSE st.lne,
                     lut |-> IF report /\ has_callback THEN t ELSE st.lut,
                     emit |-> IF report /\ has_callback
                              THEN Append(st.emit, Status(progress_pct, "Processing"))
                              ELSE st.emit]
         IN  ExecutingLoop(Tail(executing), st1, t, elapsed)

\* progress_pct of the time-based update, lines 1507-1523
IdleProgress(lne, elapsed) ==
    IF lne # "" /\ lne \in DOMAIN stage_percentages
    THEN IF lne = "27" THEN GeneratingProgress(elapsed, stage_percentages[lne])
         ELSE stage_percentages[lne]
    ELSE TimeBasedProgress(elapsed)

\* a variant that trusts the completed flag of the status alone
PollCompletesOnFlagOnly(h) == h.http = "200" /\ h.keyed /\ h.completed

\* the two completion tests of a poll, lines 1284-1316
PollCompletes(h) ==
    check_workflow_status(h).is_complete \/ TerminalNode \in WaitOutputs(h)

\* the wait ends: return (or raise); the locals of the call are gone
Finish(o, emits) ==
    /\ wpc' = "done"
    /\ outcome' = o
    /\ retval' = ReturnValue(o)
    /\ emitted' = emits
    /\ check_interval' = initial_check_interval
    /\ elapsed_time' = 0
    /\ last_update_time' = 0
    /\ last_queue_check_time' = 0
    /\ prompt_left_queue' = FALSE
    /\ showed_finalizing' = FALSE
    /\ consecutive_not_in_queue' = 0
    /\ last_node_executing' = ""
    /\ reported_nodes' = {}

\* history: the response records output of the terminal node
RecordsTerminal(h) ==
    /\ h.http = "200"
    /\ (h.keyed /\ h.p_has_outputs /\ "30" \in h.p_outputs)
         \/ (h.t_has_outputs /\ "30" \in h.t_outputs)

\* a variant that never gives up
ExpiredNever(elapsed, budget) == FALSE

\* if elapsed_time > timeout_seconds
Expired(elapsed, budget) == elapsed > budget

\* lines 1276-1281: the timeout check at the head of every iteration
WaitLoopTop ==
    /\ script = "006"
    /\ wpc = "top"
    /\ LET elapsed == now - start_time
       IN  IF Expired(elapsed, timeout_seconds)
           THEN /\ Finish("TimedOut", <<>>)
                /\ UNCHANGED polls
           ELSE /\ polls < poll_limit
                /\ wpc' = "status"
                /\ elapsed_time' = elapsed
                /\ polls' = polls + 1
                /\ emitted' = <<>>
                /\ UNCHANGED <<outcome, retval, check_interval, last_update_time,
                               last_queue_check_time, prompt_left_queue,
                               showed_finalizing, consecutive_not_in_queue,
                               last_node_executing, reported_nodes>>
    /\ resp' = NoHistory
    /\ qresp' = NoQueue
    /\ UNCHANGED <<script, poll_limit, now, start_time, timeout_seconds, has_callback,
                   saw_terminal, clean_misses, queue_listed>>

\* lines 1283-1349: the history query, the two completion tests, the
\* progress summary and the decision to query the queue
WaitCheckStatus(h) ==
    /\ script = "006"
    /\ wpc = "status"
    /\ LET t == now + RequestLatency
           outputs == WaitOutputs(h)
       IN  /\ now' = t
           /\ resp' = h
           /\ saw_terminal' = (saw_terminal \/ RecordsTerminal(h))
           /\ IF PollCompletes(h)
              THEN Finish("Complete", Callback(100, "Complete"))
              ELSE LET summary == ProgressSummary(outputs, t)
                       due == /\ ~prompt_left_queue
                              /\ t - last_queue_check_time > queue_check_interval
                   IN  /\ emitted' = summary.emit
                       /\ reported_nodes' = summary.reported
                       /\ last_update_time' = summary.lut
                       /\ last_queue_check_time' =
                              IF due THEN t ELSE last_queue_check_time
                       /\ wpc' = IF due THEN "queue" ELSE "post"
                       /\ UNCHANGED <<outcome, retval, check_interval, elapsed_time,
                                      prompt_left_queue, showed_finalizing,
                                      consecutive_not_in_queue, last_node_executing>>
    /\ UNCHANGED <<script, poll_limit, start_time, timeout_seconds, has_callback,
                   qresp, polls, clean_misses, queue_listed>>

\* lines 1351-1443: the queue query and its three branches
WaitCheckQueue(q, stall) ==
    /\ script = "006"
    /\ wpc = "queue"
    /\ LET info == get_queue_status(q)
           t == now + RequestLatency
           outputs == WaitOutputs(resp)
           executing == WaitExecuting(resp)
       IN  /\ qresp' = q
           /\ IF info.raised
              THEN \* the exception of get_queue_status leaves the wait
                   /\ stall = 0
                   /\ now' = t
                   /\ Finish("Raised", <<>>)
                   /\ UNCHANGED <<resp, clean_misses, queue_listed>>
              ELSE IF info.is_in_queue /\ info.queue_position > 0
              THEN \* pending: report the position, sleep, continue
                   /\ consecutive_not_in_queue' = 0
                   /\ clean_misses' = 0
                   /\ queue_listed' = TRUE
                   /\ emitted' = Callback(0, "Queued")
                   /\ now' = t + check_interval + stall
                   /\ wpc' = "top"
                   /\ resp' = NoHistory
                   /\ UNCHANGED <<last_node_executing, last_update_time,
                                  prompt_left_queue, showed_finalizing,
                                  outcome, retval, check_interval, elapsed_time,
                                  last_queue_check_time, reported_nodes>>
              ELSE IF info.is_in_queue /\ info.queue_running
              THEN \* running: report the node, sleep, continue
                   LET report == has_callback /\ t - last_update_time > progress_interval
                   IN  /\ consecutive_not_in_queue' = 0
                       /\ clean_misses' = 0
                       /\ queue_listed' = TRUE
                       /\ last_node_executing' =
                              IF info.has_current_node THEN info.current_node
                              ELSE last_node_executing
                       /\ last_update_time' = IF report THEN t ELSE last_update_time
                       /\ emitted' = IF report
                                     THEN <<Status(RunningProgress(info, elapsed_time),
                                                   "Processing")>>
                                     ELSE <<>>
                       /\ now' = t + check_interval + stall
                       /\ wpc' = "top"
                       /\ resp' = NoHistory
                       /\ UNCHANGED <<prompt_left_queue, showed_finalizing,
                                      outcome, retval, check_interval, elapsed_time,
                                      last_queue_check_time, reported_nodes>>
              ELSE \* not in the queue
                   LET count == NotInQueueCount(executing, consecutive_not_in_queue)
                       left == count >= required_not_in_queue /\ outputs # {}
                       finalizing == left /\ ~showed_finalizing /\ has_callback
                   IN  /\ stall = 0
                       /\ now' = t
                       /\ consecutive_not_in_queue' = count
                       /\ clean_misses' = IF executing # <<>> THEN 0
                                          ELSE clean_misses + 1
                       /\ queue_listed' = FALSE
                       /\ prompt_left_queue' = (prompt_left_queue \/ left)
                       /\ showed_finalizing' = (showed_finalizing \/ finalizing)
                       /\ emitted' = IF finalizing THEN <<Status(95, "Finalizing")>>
                                     ELSE <<>>
                       /\ wpc' = "post"
                       /\ UNCHANGED <<last_node_executing, last_update_time,
                                      outcome, retval, check_interval, elapsed_time,
                                      last_queue_check_time, reported_nodes, resp>>
    /\ UNCHANGED <<script, poll_limit, start_time, timeout_seconds, has_callback,
                   polls, saw_terminal>>

\* lines 1445-1535: the error test, the late completion test, the progress
\* reports, the growth of the interval and the sleep
WaitPost(stall) ==
    /\ script = "006"
    /\ wpc = "post"
    /\ LET st == check_workflow_status(resp)
           outputs == WaitOutputs(resp)
           executing == WaitExecuting(resp)
           executed_nodes == {n \in outputs : IsDigit(n)}
       IN  IF st.error = "Error:"
           THEN /\ stall = 0
                /\ Finish("Errored", IF has_callback THEN <<Status(-1, "Error")>> ELSE <<>>)
                /\ UNCHANGED <<now, resp>>
           ELSE IF TerminalNode \in executed_nodes
           THEN /\ stall = 0
                /\ Finish("Complete", Callback(100, "Complete"))
                /\ UNCHANGED <<now, resp>>
           ELSE LET ex == ExecutingLoop(executing,
                               [lne |-> last_node_executing,
                                lut |-> last_update_time, emit |-> <<>>],
                               now, elapsed_time)
                    idle == now - ex.lut > progress_interval
                    interval == GrowInterval(check_interval)
                IN  /\ last_node_executing' = ex.lne
                    /\ last_update_time' = IF idle THEN now ELSE ex.lut
                    /\ emitted' = IF idle /\ has_callback
                                  THEN Append(ex.emit,
                                         Status(IdleProgress(ex.lne, elapsed_time), "Idle"))
                                  ELSE ex.emit
                    /\ check_interval' = interval
                    /\ now' = now + interval + stall
                    /\ wpc' = "top"
                    /\ resp' = NoHistory
                    /\ UNCHANGED <<outcome, retval, elapsed_time,
                                   last_queue_check_time, prompt_left_queue,
                                   showed_finalizing, consecutive_not_in_queue,
                                   reported_nodes>>
    /\ qresp' = NoQueue
    /\ UNCHANGED <<script, poll_limit, start_time, timeout_seconds, has_callback,
                   polls, saw_terminal, clean_misses, queue_listed>>

(***************************************************************************)
(* The text-to-image tracker (script 005)                                  *)
(***************************************************************************)
image_initial_check_interval == 2 * 1000
image_max_check_interval == 10 * 1000

\* the responses the text-to-image client reads: it looks only at
\* history_data[prompt_id] and at the two queue lists
ImageHistoryResponses ==
    {h \in HistoryResponses :
        ~h.t_error /\ ~h.t_has_outputs /\ ~h.p_has_executing /\ ~h.t_has_executing}

ImageQueueResponses == {q \in QueueResponses : ~q.has_node}

\* is_prompt_in_queue over get_queue_status (script 005): the first
\* component of the result
is_prompt_in_queue(q) == q.kind \in {"pending", "running"}

\* a variant that trusts the completed flag without looking for outputs
image_check_flag_only(q, h) ==
    IF is_prompt_in_queue(q) THEN StatusResult(FALSE, FALSE, "other")
    ELSE IF h.http = "200" /\ h.keyed /\ h.completed
         THEN StatusResult(TRUE, TRUE, "none")
    ELSE IF h.http = "200" /\ h.keyed /\ h.status_error
         THEN StatusResult(FALSE, TRUE, "Error:")
    ELSE StatusResult(FALSE, FALSE, "other")

\* check_workflow_status (script 005): q is the response to its own queue
\* query, h the response to get_history_direct
image_check_workflow_status(q, h) ==
    IF is_prompt_in_queue(q) THEN StatusResult(FALSE, FALSE, "other")
    ELSE IF h.http = "200" /\ h.keyed /\ h.completed /\ h.p_has_outputs
         THEN StatusResult(TRUE, TRUE, "none")
    ELSE IF h.http = "200" /\ h.keyed /\ h.status_error
         THEN StatusResult(FALSE, TRUE, "Error:")
    ELSE StatusResult(FALSE, FALSE, "other")

\* percent_complete = min(95, int((elapsed_time / timeout_seconds) * 100))
PercentComplete(elapsed, timeout) == Min(95, (elapsed * 100) \div timeout)

\* check_interval = min(10.0, check_interval * 1.2)
ImageGrowInterval(ci) == Min(image_max_check_interval, (ci * 12) \div 10)

\* lines 628-633: the timeout check at the head of every iteration
ImageLoopTop ==
    /\ script = "005"
    /\ wpc = "top"
    /\ LET elapsed == now - start_time
       IN  IF elapsed > timeout_seconds
           THEN /\ Finish("TimedOut", <<>>)
                /\ UNCHANGED polls
           ELSE /\ polls < poll_limit
                /\ wpc' = "queue"
                /\ elapsed_time' = elapsed
                /\ polls' = polls + 1
                /\ emitted' = <<>>
                /\ UNCHANGED <<outcome, retval, check_interval, last_update_time,
                               last_queue_check_time, prompt_left_queue,
                               showed_finalizing, consecutive_not_in_queue,
                               last_node_executing, reported_nodes>>
    /\ resp' = NoHistory
    /\ qresp' = NoQueue
    /\ UNCHANGED <<script, poll_limit, now, start_time, timeout_seconds, has_callback,
                   saw_terminal, clean_misses, queue_listed>>

\* lines 635-646: the queue query of the loop
ImageCheckQueue(q, stall) ==
    /\ script = "005"
    /\ wpc = "queue"
    /\ qresp' = q
    /\ queue_listed' = is_prompt_in_queue(q)
    /\ IF is_prompt_in_queue(q)
       THEN /\ emitted' = Callback(PercentComplete(elapsed_time, timeout_seconds),
                                   "Running")
            /\ now' = now + RequestLatency + check_interval + stall
            /\ wpc' = "top"
       ELSE /\ stall = 0
            /\ emitted' = <<>>
            /\ now' = now + RequestLatency
            /\ wpc' = "status"
    /\ UNCHANGED <<script, poll_limit, start_time, timeout_seconds, has_callback,
                   check_interval, elapsed_time, last_update_time,
                   last_queue_check_time, prompt_left_queue, showed_finalizing,
                   consecutive_not_in_queue, last_node_executing, reported_nodes,
                   resp, outcome, retval, polls, saw_terminal, clean_misses>>

\* lines 648-672: check_workflow_status, the callback, the two returns, the
\* growth of the interval and the sleep
ImageCheckStatus(q, h, stall) ==
    /\ script = "005"
    /\ wpc = "status"
    /\ LET st == image_check_workflow_status(q, h)
           percent_complete == PercentComplete(elapsed_time, timeout_seconds)
           t == now + RequestLatency
                    + (IF is_prompt_in_queue(q) THEN 0 ELSE RequestLatency)
       IN  /\ qresp' = q
           /\ queue_listed' = is_prompt_in_queue(q)
           /\ resp' = IF is_prompt_in_queue(q) THEN NoHistory ELSE h
           /\ is_prompt_in_queue(q) <=> h = NoHistory
           /\ IF st.is_complete
              THEN /\ stall = 0
                   /\ now' = t
                   /\ Finish("Complete", Callback(100, "Complete"))
              ELSE IF st.error = "Error:"
              THEN /\ stall = 0
                   /\ now' = t
                   /\ Finish("Errored", Callback(percent_complete, "Error"))
              ELSE LET interval == ImageGrowInterval(check_interval)
                   IN  /\ emitted' = Callback(percent_complete, "Status")
                       /\ check_interval' = interval
                       /\ now' = t + interval + stall
                       /\ wpc' = "top"
                       /\ UNCHANGED <<outcome, retval, elapsed_time, last_update_time,
                                      last_queue_check_time, prompt_left_queue,
                                      showed_finalizing, consecutive_not_in_queue,
                                      last_node_executing, reported_nodes>>
    /\ UNCHANGED <<script, poll_limit, start_time, timeout_seconds, has_callback,
                   polls, saw_terminal, clean_misses>>

Stalls == {0, Stall}

TrackerStart(limit) ==
    /\ script \in {"006", "005"}
    /\ poll_limit = limit
    /\ wpc = "top"
    /\ start_time = StartClock
       \* script 006 sleeps one second before its first check
    /\ now = IF script = "006" THEN StartClock + 1000 ELSE StartClock
    /\ timeout_seconds \in {m * 60 * 1000 : m \in TimeoutChoices}
    /\ script = "005" => timeout_seconds > 0
    /\ has_callback = TRUE              \* main passes print_status_update
    /\ check_interval = IF script = "006" THEN initial_check_interval
                        ELSE image_initial_check_interval
    /\ elapsed_time = 0
    /\ last_update_time = 0
    /\ last_queue_check_time = 0
    /\ prompt_left_queue = FALSE
    /\ showed_finalizing = FALSE
    /\ consecutive_not_in_queue = 0
    /\ last_node_executing = ""
    /\ reported_nodes = {}
    /\ resp = NoHistory
    /\ qresp = NoQueue
    /\ emitted = <<>>
    /\ outcome = "none"
    /\ retval = "none"
    /\ polls = 0
    /\ saw_terminal = FALSE
    /\ clean_misses = 0
    /\ queue_listed = FALSE
    /\ SubmitIdle
    /\ DownloadIdle
    /\ MainIdle
    /\ LibraryIdle

TrackerInit == TrackerStart(MaxPolls)

TrackerNext ==
    \/ WaitLoopTop /\ UNCHANGED <<submitVars, downloadVars, mainVars, libraryVars>>
    \/ \E h \in HistoryResponses :
          WaitCheckStatus(h) /\ UNCHANGED <<submitVars, downloadVars, mainVars, libraryVars>>
    \/ \E q \in QueueResponses, stall \in Stalls :
          WaitCheckQueue(q, stall) /\ UNCHANGED <<submitVars, downloadVars, mainVars, libraryVars>>
    \/ \E stall \in Stalls :
          WaitPost(stall) /\ UNCHANGED <<submitVars, downloadVars, mainVars, libraryVars>>
    \/ ImageLoopTop /\ UNCHANGED <<submitVars, downloadVars, mainVars, libraryVars>>
    \/ \E q \in ImageQueueResponses, stall \in Stalls :
          ImageCheckQueue(q, stall) /\ UNCHANGED <<submitVars, downloadVars, mainVars, libraryVars>>
    \/ \E q \in ImageQueueResponses, h \in ImageHistoryResponses \cup {NoHistory},
          stall \in Stalls :
          ImageCheckStatus(q, h, stall) /\ UNCHANGED <<submitVars, downloadVars, mainVars, libraryVars>>

SpecTracker == TrackerInit /\ [][TrackerNext]_vars

\* the tracker variables while no wait is running
TrackerIdle ==
    /\ script = "none"
    /\ poll_limit = 0
    /\ wpc = "idle"
    /\ start_time = 0
    /\ now = 0
    /\ timeout_seconds = 0
    /\ has_callback = TRUE
    /\ check_interval = initial_check_interval
    /\ elapsed_time = 0
    /\ last_update_time = 0
    /\ last_queue_check_time = 0
    /\ prompt_left_queue = FALSE
    /\ showed_finalizing = FALSE
    /\ consecutive_not_in_queue = 0
    /\ last_node_executing = ""
    /\ reported_nodes = {}
    /\ resp = NoHistory
    /\ qresp = NoQueue
    /\ emitted = <<>>
    /\ outcome = "none"
    /\ retval = "none"
    /\ polls = 0
    /\ saw_terminal = FALSE
    /\ clean_misses = 0
    /\ queue_listed = FALSE

(***************************************************************************)
(* One call of queue_workflow                                              *)
(***************************************************************************)
SubmitInit ==
    /\ TrackerIdle
    /\ DownloadIdle
    /\ MainIdle
    /\ LibraryIdle
    /\ spc = "start"
    /\ retry = 0
    /\ retry_delay = initial_retry_delay
    /\ posted = <<>>
    /\ slept = <<>>
    /\ submit_result = NoJob

SubmitNext ==
    \/ \E ok \in BOOLEAN :
          SubmitPrepare(ok) /\ UNCHANGED <<trackerVars, downloadVars, mainVars, libraryVars>>
    \/ \E r \in SubmitResponses :
          SubmitAttempt(r) /\ UNCHANGED <<trackerVars, downloadVars, mainVars, libraryVars>>

SpecSubmit == SubmitInit /\ [][SubmitNext]_vars

(***************************************************************************)
(* One call of download_file                                               *)
(***************************************************************************)
DownloadInit ==
    /\ TrackerIdle
    /\ SubmitIdle
    /\ MainIdle
    /\ LibraryIdle
    /\ dpc = "start"
    /\ dl_args \in DownloadArgs
    /\ requests = <<>>
    /\ dl_result = "None"
    /\ dest_file = "absent"

DownloadNext ==
    \/ \E w \in WarmupResults :
          DownloadWarmup(w) /\ UNCHANGED <<trackerVars, submitVars, mainVars, libraryVars>>
    \/ \E r \in TransferResults :
          DownloadPrimary(r) /\ UNCHANGED <<trackerVars, submitVars, mainVars, libraryVars>>
    \/ \E r \in TransferResults :
          DownloadFallback(r) /\ UNCHANGED <<trackerVars, submitVars, mainVars, libraryVars>>

SpecDownload == DownloadInit /\ [][DownloadNext]_vars

(***************************************************************************)
(* The pipeline: main of script 006                                        *)
(***************************************************************************)
\* the stage log: a stage is logged when it is entered
Log(s, e) == IF s # <<>> /\ s[Len(s)] = e THEN s ELSE Append(s, e)

\* a variant that takes every submit result for a job id
NotPromptIdNever(id) == FALSE

\* "if not prompt_id": None (and the empty string) is falsy
NotPromptId(id) == id = NoJob

\* one entry of the list get_output_files returns: is_video is the test of
\* line 321 on the filename; format "" and frame_rate 0: the entry has no
\* such key
OutputFile(is_video, node_id, subfolder, format, frame_rate) ==
    [is_video |-> is_video, node_id |-> node_id, subfolder |-> subfolder,
     format |-> format, frame_rate |-> frame_rate]

Image27 == OutputFile(FALSE, "27", "", "", 0)
Video30 == OutputFile(TRUE, "30", "", "video/webm", 30)
Video30Bare == OutputFile(TRUE, "30", "sub", "", 0)
Video27 == OutputFile(TRUE, "27", "", "video/webm", 30)
Video16 == OutputFile(TRUE, "16", "sub", "", 0)

OutputListings ==
    {<<>>, <<Image27>>, <<Image27, Video30>>, <<Video30, Video30Bare>>,
     <<Video27>>, <<Video27, Video16>>}

\* videos = [f for f in output_files if f["filename"] ... endswith(...)]
SelectVideos(files) == SelectSeq(files, LAMBDA f : f.is_video)

\* node_30_videos = [v for v in videos if v["node_id"] == "30"]
Node30Videos(vs) == SelectSeq(vs, LAMBDA v : v.node_id = TerminalNode)

\* the arguments of the download_file call of lines 342-351
LatestVideoArgs(v) ==
    [is_video |-> v.is_video, subfolder |-> v.subfolder,
     format_type |-> IF v.format # "" THEN v.format ELSE "video/h264-mp4",
     frame_rate |-> IF v.frame_rate # 0 THEN v.frame_rate ELSE 24]

\* the arguments of the download_file call of lines 398-402
AnyVideoArgs(v) ==
    [is_video |-> v.is_video, subfolder |-> v.subfolder,
     format_type |-> "", frame_rate |-> 0]

\* return n from main, or an exception that reaches the handler of
\* lines 436-442: the process exits
Exit(n) ==
    /\ mpc' = "exited"
    /\ exit_code' = n

\* lines 215-270: the requirements, the instance URL, the template and the
\* injection of the parameters
MainStart(ok) ==
    /\ mpc = "start"
    /\ IF ok
       THEN /\ mpc' = "queue"
            /\ spc' = "start"
            /\ UNCHANGED exit_code
       ELSE /\ Exit(1)
            /\ UNCHANGED spc
    /\ UNCHANGED <<stages, cache, cached_video, videos, video_index,
                   retry, retry_delay, posted, slept, submit_result>>
    /\ UNCHANGED <<trackerVars, downloadVars>>

\* line 274: queue_workflow compiles the graph ...
MainCompile(ok) ==
    /\ mpc = "queue"
    /\ SubmitPrepare(ok)
    /\ stages' = Log(stages, "compile")
    /\ UNCHANGED <<mpc, cache, cached_video, videos, video_index, exit_code>>
    /\ UNCHANGED <<trackerVars, downloadVars>>

\* ... and posts it
MainSubmit(r) ==
    /\ mpc = "queue"
    /\ SubmitAttempt(r)
    /\ stages' = Log(stages, "submit")
    /\ UNCHANGED <<mpc, cache, cached_video, videos, video_index, exit_code>>
    /\ UNCHANGED <<trackerVars, downloadVars>>

\* lines 276-280
MainQueued ==
    /\ mpc = "queue"
    /\ spc = "done"
    /\ IF NotPromptId(submit_result)
       THEN Exit(1)
       ELSE mpc' = "queue_status" /\ UNCHANGED exit_code
    /\ UNCHANGED <<stages, cache, cached_video, videos, video_index>>
    /\ UNCHANGED <<trackerVars, submitVars, downloadVars>>

\* lines 282-292: the first look at the queue
MainQueueStatus(q) ==
    /\ mpc = "queue_status"
    /\ stages' = Log(stages, "poll")
    /\ IF get_queue_status(q).raised
       THEN Exit(1)
       ELSE mpc' = "wait" /\ UNCHANGED exit_code
    /\ UNCHANGED <<cache, cached_video, videos, video_index>>
    /\ UNCHANGED <<trackerVars, submitVars, downloadVars>>

\* lines 294-310: wait_for_workflow_completion, by the outcome it ends with
MainWait(o) ==
    /\ mpc = "wait"
    /\ stages' = Log(stages, "poll")
    /\ outcome' = o
    /\ retval' = ReturnValue(o)
    /\ IF ReturnValue(o) = "True"
       THEN mpc' = "list" /\ UNCHANGED exit_code
       ELSE Exit(1)
    /\ UNCHANGED <<cache, cached_video, videos, video_index>>
    /\ UNCHANGED <<script, poll_limit, wpc, now, start_time, timeout_seconds, has_callback,
                   check_interval, elapsed_time, last_update_time,
                   last_queue_check_time, prompt_left_queue, showed_finalizing,
                   consecutive_not_in_queue, last_node_executing, reported_nodes,
                   resp, qresp, emitted, polls, saw_terminal, clean_misses,
                   queue_listed>>
    /\ UNCHANGED <<submitVars, downloadVars>>

\* lines 312-351 and 396-402: the listing, the filter and the first call of
\* download_file
MainList(files) ==
    /\ mpc = "list"
    /\ stages' = Log(stages, "list")
    /\ LET vs == SelectVideos(files)
           n30 == Node30Videos(vs)
       IN  IF vs = <<>>
           THEN /\ Exit(1)
                /\ UNCHANGED <<videos, video_index, dpc, dl_args>>
           ELSE /\ mpc' = "download"
                /\ videos' = vs
                /\ video_index' = IF n30 # <<>> THEN 0 ELSE 1
                /\ dl_args' = IF n30 # <<>> THEN LatestVideoArgs(n30[Len(n30)])
                              ELSE AnyVideoArgs(vs[1])
                /\ dpc' = "start"
                /\ UNCHANGED exit_code
    /\ UNCHANGED <<cache, cached_video, requests, dl_result, dest_file>>
    /\ UNCHANGED <<trackerVars, submitVars>>

\* a step of the download_file call in progress
MainDownload ==
    /\ mpc = "download"
    /\ DownloadStep
    /\ stages' = Log(stages, "download")
    /\ UNCHANGED <<mpc, cache, cached_video, videos, video_index, exit_code>>
    /\ UNCHANGED <<trackerVars, submitVars>>

\* lines 353-393 (video_index 0: the video of node 30) and 403-433 (the
\* loop over the other videos)
MainDownloaded ==
    /\ mpc = "download"
    /\ dpc = "done"
    /\ IF dl_result # "None"
       THEN /\ Exit(0)
            /\ cached_video' = (cached_video \/ cache)
            /\ UNCHANGED <<video_index, dpc, dl_args, requests, dl_result, dest_file>>
       ELSE IF video_index = 0
       THEN /\ Exit(IF cache /\ cached_video THEN 0 ELSE 1)
            /\ UNCHANGED <<cached_video, video_index, dpc, dl_args, requests,
                           dl_result, dest_file>>
       ELSE IF video_index < Len(videos)
       THEN /\ video_index' = video_index + 1
            /\ dl_args' = AnyVideoArgs(videos[video_index + 1])
            /\ dpc' = "start"
            /\ requests' = <<>>
            /\ dl_result' = "None"
            /\ dest_file' = "absent"
            /\ UNCHANGED <<mpc, exit_code, cached_video>>
       ELSE /\ Exit(1)
            /\ UNCHANGED <<cached_video, video_index, dpc, dl_args, requests,
                           dl_result, dest_file>>
    /\ UNCHANGED <<stages, cache, videos>>
    /\ UNCHANGED <<trackerVars, submitVars>>

MainInit ==
    /\ TrackerIdle
    /\ SubmitIdle
    /\ DownloadIdle
    /\ LibraryIdle
    /\ mpc = "start"
    /\ stages = <<>>
    /\ cache \in BOOLEAN
    /\ cached_video \in BOOLEAN
    /\ cache = FALSE => cached_video = FALSE
    /\ videos = <<>>
    /\ video_index = 0
    /\ exit_code = -1

MainNext ==
    \/ \E ok \in BOOLEAN : MainStart(ok) /\ UNCHANGED libraryVars
    \/ \E ok \in BOOLEAN : MainCompile(ok) /\ UNCHANGED libraryVars
    \/ \E r \in SubmitResponses : MainSubmit(r) /\ UNCHANGED libraryVars
    \/ MainQueued /\ UNCHANGED libraryVars
    \/ \E q \in QueueResponses : MainQueueStatus(q) /\ UNCHANGED libraryVars
    \/ \E o \in {"Complete", "Errored", "TimedOut", "Raised"} :
          MainWait(o) /\ UNCHANGED libraryVars
    \/ \E files \in OutputListings : MainList(files) /\ UNCHANGED libraryVars
    \/ MainDownload /\ UNCHANGED libraryVars
    \/ MainDownloaded /\ UNCHANGED libraryVars

SpecPipeline == MainInit /\ [][MainNext]_vars

(***************************************************************************)
(* One call of update_workflow of script 002                               *)
(***************************************************************************)
MaxDurationMs == 8000
MaxSide == 32

Durations == 0..MaxDurationMs
Sides == 1..MaxSide \cup {1080, 1920}

SampleAudios == {NoAudio, Audio(TRUE, 0), Audio(TRUE, 3100), Audio(TRUE, 7800)}
SampleImages == {NoImage, Img(TRUE, 1920, 1080), Img(TRUE, 9, 16), Img(TRUE, 5, 5)}
SampleGraph == [id \in AvatarNodeIds |-> AvatarNode("SONIC_PreData", "duration" :> Num(3))]

AvatarInit ==
    /\ TrackerIdle
    /\ SubmitIdle
    /\ DownloadIdle
    /\ MainIdle
    /\ GraphIdle
    /\ ConcurrentIdle
    /\ apc = "start"
    /\ audio_duration = 0
    /\ optimal = SQUARE
    /\ avatar_result = EmptyAvatarGraph
    /\ \/ /\ audio \in {Audio(TRUE, d) : d \in Durations}
          /\ image = NoImage
          /\ image_found = FALSE
          /\ avatar_graph = SampleGraph
       \/ /\ audio = NoAudio
          /\ image \in {Img(TRUE, w, h) : w \in Sides, h \in Sides}
          /\ image_found = TRUE
          /\ avatar_graph = SampleGraph
       \/ /\ audio \in SampleAudios
          /\ image \in SampleImages
          /\ image_found \in BOOLEAN
          /\ avatar_graph \in AvatarGraphs
    /\ StatusIdle
    /\ QueueIdle

AvatarNext ==
    AvatarUpdate
        /\ UNCHANGED <<trackerVars, submitVars, downloadVars, mainVars, graphVars, concurrentVars, statusVars, queueVars>>

SpecAvatar == AvatarInit /\ [][AvatarNext]_vars

(***************************************************************************)
(* A caller that injects into a workflow, compiles it, and changes the     *)
(* injector's result                                                       *)
(***************************************************************************)
\* a node together with the content of its widget list
Choice(node, list) == [node |-> node, list |-> list]

\* no node in this place
NoNode == Choice(VisualNode(0, "", "", NoList, <<>>), <<>>)

\* a node whose widget list, when it has one, has the node's id as identity
WithList(id, type, title, list, slots) == Choice(VisualNode(id, type, title, id, slots), list)
WithoutList(id, type, title, slots) == Choice(VisualNode(id, type, title, NoList, slots), <<>>)

SamplerValues ==
    <<Num(1), Str("randomize"), Num(35), Num(5), Str("euler"), Str("normal"), Num(1)>>

SlotChoices ==
    {<<>>,
     <<Slot("positive", 1), Slot("latent_image", 2)>>,
     <<Slot("positive", 1), Slot("latent_image", 4)>>,
     <<Slot("seed", 1), Slot("negative", NoLink)>>}

LinkChoices ==
    {<<>>,
     <<<<1, 6, 0>>, <<2, 5, 0>>>>,
     <<<<1, 6, 0>>, <<1, 7, 1>>, <<2, 5, 0>>>>}

PositiveChoices ==
    {NoNode,
     WithoutList(6, "CLIPTextEncode", "Positive Prompt", <<>>),
     WithList(6, "CLIPTextEncode", "Positive Prompt", <<>>, <<>>),
     WithList(6, "CLIPTextEncode", "Positive Prompt", <<Str("old")>>, <<>>)}

NegativeChoices ==
    {NoNode,
     WithList(7, "CLIPTextEncode", "Negative Prompt", <<>>, <<>>),
     WithList(7, "CLIPTextEncode", "Negative Prompt", <<Str("old")>>, <<>>)}

SamplerChoices(slots) ==
    {NoNode,
     WithList(3, "KSampler", "", <<>>, slots),
     WithList(3, "KSampler", "", SubSeq(SamplerValues, 1, 2), slots),
     WithList(3, "KSampler", "", SamplerValues, slots),
     WithList(3, "SONICSampler", "", SamplerValues, slots)}

LatentChoices ==
    {NoNode,
     WithList(5, "EmptySD3LatentImage", "", <<Num(1024)>>, <<>>),
     WithList(5, "EmptySD3LatentImage", "", <<Num(1024), Num(1024), Num(1)>>, <<>>)}

ExtraChoices ==
    {NoNode,
     WithList(9, "Note", "", <<Str("read me")>>, <<>>),
     WithList(9, "SaveImage", "", <<>>, <<Slot("images", 4)>>),
     WithList(9, "SaveImage", "", <<Str("ComfyUI")>>, <<>>),
     WithList(9, "UNETLoader", "Model", <<Str("hidream.safetensors"), Str("")>>, <<>>),
     WithList(9, "ModelSamplingSD3", "", <<>>, <<>>),
     WithList(9, "CLIPTextEncode", "Style", <<Str("old")>>, <<>>),
     WithList(9, "CLIPTextEncode", "", <<Str("old")>>, <<>>)}

TextEncodeChoices ==
    {NoNode,
     WithoutList(16, "WanVideoTextEncode", "", <<>>),
     WithList(16, "WanVideoTextEncode", "", <<>>, <<>>),
     WithList(16, "WanVideoTextEncode", "", <<Str("old")>>, <<>>),
     WithList(16, "WanVideoTextEncode", "", <<Str("old"), Str("bad")>>, <<>>),
     WithList(16, "WanVideoTextEncode", "", <<Str("old"), Str("bad"), Bool(FALSE)>>, <<>>)}

EmbedsChoices(slots) ==
    {NoNode,
     WithList(3, "WanVideoEmptyEmbeds", "", <<Num(832), Num(480)>>, slots),
     WithList(3, "WanVideoEmptyEmbeds", "", <<Num(832), Num(480), Num(81)>>, slots)}

VideoExtraChoices ==
    {NoNode,
     WithList(9, "Note", "", <<Str("read me")>>, <<>>),
     WithList(9, "WanVideoVAELoader", "", <<Str("vae.safetensors"), Str("bf16")>>, <<>>),
     WithList(9, "Reroute", "", <<>>, <<Slot("in", 2)>>)}

\* the nodes of the places that are taken, in order
Present(choices) == SelectSeq(choices, LAMBDA c : c.node.id # 0)

NodesOf(choices) == [i \in 1..Len(Present(choices)) |-> Present(choices)[i].node]

\* the widget lists of the nodes, by identity
HeapOf(choices) ==
    [a \in {choices[i].node.widgets_values : i \in 1..Len(choices)} \ {NoList} |->
        choices[CHOOSE i \in 1..Len(choices) : choices[i].node.widgets_values = a].list]

SampleEntries ==
    ("3" :> ExecNode("KSampler", "", ("seed" :> Num(1)) @@ ("positive" :> Ref("6", 0))))
        @@ ("6" :> ExecNode("CLIPTextEncode", "Positive Prompt", "text" :> Str("old")))

\* the workflows that are not a list of nodes
OtherForms ==
    {ExecGraph(SampleEntries), ExecGraph(EmptyDict),
     Workflow("absent", <<>>, EmptyDict, <<>>, SampleEntries, EmptyDict),
     Workflow("dict", <<>>, SampleEntries, <<>>, EmptyDict, EmptyDict),
     Workflow("dict", <<>>, EmptyDict, <<>>, EmptyDict, EmptyDict),
     VisualGraph(<<>>, <<>>)}

GraphInit ==
    /\ TrackerIdle
    /\ SubmitIdle
    /\ DownloadIdle
    /\ MainIdle
    /\ AvatarIdle
    /\ ConcurrentIdle
    /\ gpc = "start"
    /\ injected = NoWorkflow
    /\ inject_raised = ""
    /\ compile_arg = NoWorkflow
    /\ compiled = NoWorkflow
    /\ compile_raised = ""
    /\ params \in {Params(None), Params(Num(7))}
    /\ \/ /\ compiler = "005"
          /\ \E slots \in SlotChoices, links \in LinkChoices :
             \E pos \in PositiveChoices, neg \in NegativeChoices,
                smp \in SamplerChoices(slots), lat \in LatentChoices,
                ext \in ExtraChoices :
                 /\ graph = VisualGraph(NodesOf(<<ext, lat, pos, neg, smp>>), links)
                 /\ heap = HeapOf(<<ext, lat, pos, neg, smp>>)
       \/ /\ compiler = "006"
          /\ \E slots \in SlotChoices, links \in LinkChoices :
             \E txt \in TextEncodeChoices, emb \in EmbedsChoices(slots),
                ext \in VideoExtraChoices :
                 /\ graph = VisualGraph(NodesOf(<<ext, txt, emb>>), links)
                 /\ heap = HeapOf(<<ext, txt, emb>>)
       \/ /\ compiler \in {"005", "006"}
          /\ graph \in OtherForms
          /\ heap = <<>>
    /\ heap0 = heap
    /\ StatusIdle
    /\ QueueIdle

GraphNext ==
    \/ GraphInject
          /\ UNCHANGED <<trackerVars, submitVars, downloadVars, mainVars, avatarVars, concurrentVars, statusVars, queueVars>>
    \/ GraphCompile
          /\ UNCHANGED <<trackerVars, submitVars, downloadVars, mainVars, avatarVars, concurrentVars, statusVars, queueVars>>
    \/ \E list \in DOMAIN heap :
          GraphMutateResult(list)
              /\ UNCHANGED <<trackerVars, submitVars, downloadVars, mainVars, avatarVars, concurrentVars, statusVars, queueVars>>

SpecGraph == GraphInit /\ [][GraphNext]_vars

(***************************************************************************)
(* Two pipelines started in an empty working directory, interleaved in any *)
(* order while the clock advances                                          *)
(***************************************************************************)
MaxSeconds == 2

\* the wall clock reaches the next second
ClockTick ==
    /\ wall_second < MaxSeconds
    /\ \E p \in Pipelines : cpc[p] # "exited"
    /\ wall_second' = wall_second + 1
    /\ UNCHANGED <<cpc, written, use_cache, listed_filename, pipeline_exit>>

ConcurrentInit ==
    /\ TrackerIdle
    /\ SubmitIdle
    /\ DownloadIdle
    /\ MainIdle
    /\ AvatarIdle
    /\ GraphIdle
    /\ cpc = [p \in Pipelines |-> "start"]
    /\ wall_second = 0
    /\ written = {}
    /\ use_cache \in [Pipelines -> BOOLEAN]
    /\ listed_filename = [p \in Pipelines |-> ""]
    /\ pipeline_exit = [p \in Pipelines |-> -1]
    /\ StatusIdle
    /\ QueueIdle

ConcurrentNext ==
    \/ \E p \in Pipelines :
          PipelineQueue(p)
              /\ UNCHANGED <<trackerVars, submitVars, downloadVars, mainVars,
                             avatarVars, graphVars, statusVars, queueVars>>
    \/ \E p \in Pipelines, filename \in Filenames :
          PipelineList(p, filename)
              /\ UNCHANGED <<trackerVars, submitVars, downloadVars, mainVars,
                             avatarVars, graphVars, statusVars, queueVars>>
    \/ \E p \in Pipelines, ok \in BOOLEAN :
          PipelineDownload(p, ok)
              /\ UNCHANGED <<trackerVars, submitVars, downloadVars, mainVars,
                             avatarVars, graphVars, statusVars, queueVars>>
    \/ ClockTick
          /\ UNCHANGED <<trackerVars, submitVars, downloadVars, mainVars,
                         avatarVars, graphVars, statusVars, queueVars>>

SpecConcurrent == ConcurrentInit /\ [][ConcurrentNext]_vars

(***************************************************************************)
(* Properties of the completion trackers                                   *)
(***************************************************************************)
\* the response explicitly reports an error for the job: status_str is
\* "error" in the job's status, or the response has an error field
ReportsError(h) ==
    /\ h.http = "200"
    /\ (h.keyed /\ h.status_error) \/ h.t_error

\* the response reports status.completed = true for the job
ReportsCompleted(h) == h.http = "200" /\ h.keyed /\ h.completed

\* C1: in the text-to-video tracker, a wait that ends on a poll whose
\* history response explicitly reports an error ends Errored (never
\* Complete), whatever the queue query returns.
C1_ErrorEndsErrored ==
    (script = "006" /\ wpc = "done" /\ ReportsError(resp)) => outcome = "Errored"

\* C2: the text-to-video tracker never reports Complete unless the terminal
\* node "30" appeared in the recorded outputs of some poll of the wait.
C2_CompleteNeedsTerminal ==
    (script = "006" /\ outcome = "Complete") => saw_terminal

\* C2 (amended): the text-to-video tracker never reports Complete unless the
\* history response of the returning poll records output of the terminal
\* node "30", or reports status.completed = true, or carries a top-level
\* error field.
C2_CompleteNeedsSignal ==
    (script = "006" /\ outcome = "Complete")
        => (RecordsTerminal(resp) \/ ReportsCompleted(resp)
              \/ (resp.http = "200" /\ resp.t_error))

C2_Witness ==
    /\ script = "006" /\ outcome = "Complete"
    /\ ~saw_terminal /\ ReportsCompleted(resp) /\ polls > 1

C4_QueueExitNeedsFiveMisses ==
    (script = "006" /\ wpc # "done")
        => /\ prompt_left_queue => clean_misses >= required_not_in_queue
           /\ consecutive_not_in_queue = clean_misses

C4_Witness ==
    /\ script = "006" /\ prompt_left_queue /\ showed_finalizing
    /\ clean_misses = required_not_in_queue

\* C5: the wait always ends by returning one of Complete, Errored, TimedOut.
C5_EndsWithAnOutcome ==
    wpc = "done" => outcome \in {"Complete", "Errored", "TimedOut"}

\* C8: every progress value passed to the status callback is below 100,
\* except the single "100% - Complete" of the step that returns Complete
\* (both trackers).
C8_ProgressBelow100 ==
    \A i \in 1..Len(emitted) :
        emitted[i].pct >= 100
            => /\ emitted[i] = Status(100, "Complete")
               /\ i = Len(emitted)
               /\ wpc = "done" /\ outcome = "Complete"

C8_Witness ==
    /\ script = "006" /\ wpc = "top"
    /\ elapsed_time >= estimated_total_time
    /\ \E i \in 1..Len(emitted) : emitted[i].pct = 90

\* C9: the caller of the wait can tell a timeout from a remote execution
\* error: what is returned for TimedOut differs from what is returned for
\* Errored.
C9_TimeoutDistinctFromError ==
    (wpc = "done" /\ outcome = "TimedOut") => retval # ReturnValue("Errored")

(***************************************************************************)
(* Properties of queue_workflow                                            *)
(***************************************************************************)
RECURSIVE Pow2(_)
Pow2(n) == IF n = 0 THEN 1 ELSE 2 * Pow2(n - 1)

\* C6: queue_workflow posts at most 3 times per call; the delays it sleeps
\* between attempts are 2s, 4s, ... (one after every failed attempt that is
\* followed by another); two transient failures (503 or network error)
\* followed by a 200 return the prompt_id of that response; three failed
\* attempts return None; nothing is posted after a 200 whose body was
\* parsed or after the call has returned.
C6_RetryBudget ==
    /\ Len(posted) <= 3
    /\ \A i \in 1..Len(slept) : slept[i] = 2 * 1000 * Pow2(i - 1)
    /\ spc = "attempt" => Len(slept) = Len(posted) /\ retry = Len(posted)
    /\ (spc = "done" /\ posted # <<>>) => Len(slept) = Len(posted) - 1
    /\ \A i \in 1..Len(posted) : Accepted(posted[i]) => i = Len(posted) /\ spc = "done"
    /\ \A i \in 1..Len(posted) : i < Len(posted) => Retried(posted[i])
    /\ (/\ spc = "done" /\ Len(posted) = 3
        /\ Transient(posted[1]) /\ Transient(posted[2])
        /\ Accepted(posted[3])) => submit_result = posted[3].id
    /\ (spc = "done" /\ \A i \in 1..Len(posted) : ~Accepted(posted[i]))
          => submit_result = NoJob

C6_Witness ==
    /\ spc = "done" /\ Len(posted) = 3
    /\ posted[1].kind = "503" /\ posted[2].kind = "neterr" /\ posted[3].kind = "200"
    /\ submit_result \in JobIds
    /\ slept = <<2 * 1000, 4 * 1000>>

(***************************************************************************)
(* Properties of download_file                                             *)
(***************************************************************************)
\* the GETs of a call, by transport
PrimaryGets == {i \in 1..Len(requests) :
                   requests[i].method = "GET" /\ requests[i].transport = "session"}
FallbackGets == {i \in 1..Len(requests) : requests[i].transport = "plain"}

\* C7: when the primary GET of a download_file call fails, the call makes
\* exactly one fallback request, with the API key in the query of its URL;
\* it returns None only if both the primary and the fallback failed, and
\* the destination path if either delivered the file.
C7_FallbackCoversPrimaryFailure ==
    dpc = "done" =>
        /\ (\E i \in PrimaryGets : requests[i].result # "200")
              => /\ Cardinality(FallbackGets) = 1
                 /\ \A i \in FallbackGets : requests[i].url.api_key
        /\ dl_result = "None"
              => /\ \E i \in PrimaryGets : requests[i].result # "200"
                 /\ \E i \in FallbackGets : requests[i].result # "200"
        /\ (\E i \in PrimaryGets \cup FallbackGets : requests[i].result = "200")
              => dl_result = "path"

(***************************************************************************)
(* Properties of the pipeline                                              *)
(***************************************************************************)
StageOrder == <<"compile", "submit", "poll", "list", "download">>

Entered(stage) == \E i \in 1..Len(stages) : stages[i] = stage

\* C10: the stages of a run are entered in the order compile, submit,
\* poll, listing, download, none twice and none skipped; the polling is
\* entered only with a job id returned by queue_workflow; the listing and
\* the download only after the wait returned True (Complete); a failed
\* compile, submit or poll is the last stage of its run.
C10_StagesInOrder ==
    /\ Len(stages) <= Len(StageOrder)
    /\ \A i \in 1..Len(stages) : stages[i] = StageOrder[i]
    /\ Entered("submit") => posted # <<>>
    /\ Entered("poll") => submit_result \in JobIds
    /\ Entered("list") => outcome = "Complete" /\ retval = "True"
    /\ (spc = "done" /\ posted = <<>>) => ~Entered("submit")
    /\ (spc = "done" /\ submit_result = NoJob) => ~Entered("poll")
    /\ retval \in {"False", "exception"} => ~Entered("list")
    /\ (mpc = "exited" /\ Len(stages) < Len(StageOrder)) => exit_code = 1

C10_Witness ==
    /\ mpc = "exited" /\ exit_code = 0
    /\ stages = StageOrder
    /\ Len(posted) = 3
    /\ dl_result = "path"

\* some download_file call of the run returned None: the download loop
\* moves to the next video only after a failure, and the last call's result
\* is still in dl_result
SomeDownloadFailed ==
    /\ Entered("download")
    /\ video_index > 1 \/ (dpc = "done" /\ dl_result = "None")

\* C11: a run in which the download of some artifact failed exits non-zero,
\* unless caching is enabled and the cache holds a copy for the artifact's
\* filename, in which case it exits 0; for the video of the terminal node
\* and for the other videos alike.
C11_FailedDownloadFailsRun ==
    (mpc = "exited" /\ SomeDownloadFailed)
        => (exit_code = 0 <=> (cache /\ cached_video))

(***************************************************************************)
(* Properties of the avatar injector (script 002)                          *)
(***************************************************************************)
\* the least whole number of seconds that is no less than ms milliseconds
CeilSeconds(ms) ==
    CHOOSE n \in 0..(ms \div 1000 + 1) : n * 1000 >= ms /\ (n - 1) * 1000 < ms

\* C16: for every non-negative raw duration d of a readable audio file the
\* duration get_audio_duration computes is ceil(d) + 1, a whole number of
\* seconds strictly greater than d (3.1 gives 5, 4.0 gives 5, 0 gives 1, 7.8
\* gives 9).
C16_DurationIsCeilPlusOne ==
    /\ (apc = "done" /\ audio.loadable) =>
           /\ audio_duration = CeilSeconds(audio.length) + 1
           /\ audio_duration * 1000 > audio.length
    /\ get_audio_duration(Audio(TRUE, 3100)) = 5
    /\ get_audio_duration(Audio(TRUE, 4000)) = 5
    /\ get_audio_duration(Audio(TRUE, 0)) = 1
    /\ get_audio_duration(Audio(TRUE, 7800)) = 9

C16_Witness ==
    /\ apc = "done"
    /\ audio = Audio(TRUE, 3100)
    /\ audio_duration = 5

\* the canonical ratios as <<numerator, denominator>>
Ratio(size) ==
    IF size = LANDSCAPE THEN <<16, 9>>
    ELSE IF size = PORTRAIT THEN <<9, 16>>
    ELSE <<1, 1>>

\* |w/h - a's ratio| <= |w/h - b's ratio|, both sides times h and the two
\* denominators
NoFarther(w, h, a, b) ==
    Abs(w * Ratio(a)[2] - Ratio(a)[1] * h) * Ratio(b)[2]
        <= Abs(w * Ratio(b)[2] - Ratio(b)[1] * h) * Ratio(a)[2]

Canonical == {LANDSCAPE, PORTRAIT, SQUARE}

\* the canonical size of minimal difference, landscape before portrait before
\* square
Closest(w, h) ==
    IF \A b \in Canonical : NoFarther(w, h, LANDSCAPE, b) THEN LANDSCAPE
    ELSE IF \A b \in Canonical : NoFarther(w, h, PORTRAIT, b) THEN PORTRAIT
    ELSE SQUARE

\* C17: for every image of positive width and height get_optimal_dimensions
\* returns one of the three canonical sizes, the one whose ratio is nearest
\* to width/height with ties going to landscape, then portrait, then square;
\* equal sides give square, 1920x1080 gives landscape and an unreadable image
\* gives square.
C17_ClosestCanonicalSize ==
    /\ (apc = "done" /\ image_found /\ image.readable) =>
           /\ optimal \in Canonical
           /\ optimal = Closest(image.width, image.height)
           /\ image.width = image.height => optimal = SQUARE
    /\ (apc = "done" /\ image_found /\ ~image.readable) => optimal = SQUARE
    /\ get_optimal_dimensions(Img(TRUE, 1920, 1080)) = LANDSCAPE

C17_Witness ==
    /\ apc = "done"
    /\ image = Img(TRUE, 25, 18)
    /\ image_found
    /\ optimal = LANDSCAPE

\* C18: the graph update_workflow returns carries the derived values: every
\* SONIC_PreData node has duration ceil(d) + 1, every Image Resize node has the
\* canonical size selected for the supplied image, every LoadImage node has
\* the supplied image name.
C18_DerivedValuesWritten ==
    (apc = "done" /\ audio.loadable /\ image.readable) =>
        \A id \in DOMAIN avatar_result :
            LET node == avatar_result[id]
            IN  /\ node.class_type = "SONIC_PreData" =>
                       /\ "duration" \in DOMAIN node.inputs
                       /\ node.inputs["duration"]
                              = Num(CeilSeconds(audio.length) + 1)
                /\ node.class_type = "Image Resize" =>
                       /\ node.inputs["resize_width"]
                              = Num(Closest(image.width, image.height)[1])
                       /\ node.inputs["resize_height"]
                              = Num(Closest(image.width, image.height)[2])
                /\ node.class_type = "LoadImage" =>
                       node.inputs["image"] = ImageName

(***************************************************************************)
(* Properties of the graph compiler and the parameter injectors            *)
(***************************************************************************)
\* some bound input slot of a node the compiler retains names a link id the
\* link table does not have
UnresolvableLink(workflow) ==
    /\ workflow.nodes_kind = "list"
    /\ \E i \in 1..Len(workflow.nodes) :
          /\ workflow.nodes[i].type # "Note"
          /\ \E k \in 1..Len(workflow.nodes[i].inputs) :
                /\ workflow.nodes[i].inputs[k].link # NoLink
                /\ FindLink(workflow.links, workflow.nodes[i].inputs[k].link) = <<>>

\* C13: the compiler fails exactly when a bound input slot of a retained node
\* references a link id that is absent from the link table.
C13_FailsIffUnresolvableLink ==
    gpc = "compiled" => (compile_raised # "" <=> UnresolvableLink(compile_arg))

\* a node-id -> record map and nothing else
IsExecForm(workflow) == workflow = ExecGraph(workflow.entries)

\* C14: the compiler returns an execution-form graph as it is, and compiling
\* what the compiler returned gives the same graph again.
C14_CompileIdempotent ==
    (gpc = "compiled" /\ compile_raised = "") =>
        /\ IsExecForm(compile_arg) => compiled = compile_arg
        /\ transform_workflow_to_api_format(compiler, heap, compiled)
               = Returned(compiled)

C14_Witness ==
    /\ gpc = "compiled"
    /\ compile_arg.nodes_kind = "list"
    /\ compiled.entries # EmptyDict
    /\ \E id \in DOMAIN compiled.entries :
          \E name \in DOMAIN compiled.entries[id].inputs :
              compiled.entries[id].inputs[name][1] = "list"

\* C15: the injector and the compiler leave G as it was: every widget list
\* of G holds what it held before the call, also after the caller changed
\* the injector's result, and the result has none of G's lists.
C15_GraphNotMutated ==
    /\ gpc # "idle" =>
           /\ DOMAIN heap0 \subseteq DOMAIN heap
           /\ \A a \in DOMAIN heap0 : heap[a] = heap0[a]
    /\ gpc \in {"injected", "mutated"} => Lists(injected) \cap Lists(graph) = {}

C15_Witness ==
    /\ gpc = "mutated"
    /\ \E i \in 1..Len(graph.nodes) :
          /\ graph.nodes[i].type = "KSampler"
          /\ heap[graph.nodes[i].widgets_values] = SamplerValues
          /\ heap[injected.nodes[i].widgets_values][1] = Num(7)
          /\ Len(heap[injected.nodes[i].widgets_values]) = Len(SamplerValues) + 1

\* the widget list of a recognized node is shorter than the injector expects
ArityMismatch(node, wv) ==
    \/ (IsPositivePrompt(node) \/ IsNegativePrompt(node)) /\ Len(wv) < 1
    \/ node.type = "KSampler" /\ Len(wv) < 3
    \/ IsLatentImage(node) /\ Len(wv) < 2

\* C19: when a recognized node's widget list is shorter than expected,
\* update_text_to_image_workflow does not fail and returns that node as it
\* was.
C19_ArityMismatchLeftAlone ==
    (compiler = "005" /\ gpc \in {"injected", "raised"}
        /\ validate_workflow(graph) = {}) =>
        /\ inject_raised = ""
        /\ \A i \in 1..Len(graph.nodes) :
              (/\ graph.nodes[i].widgets_values # NoList
               /\ ArityMismatch(graph.nodes[i], heap0[graph.nodes[i].widgets_values]))
                  => heap[injected.nodes[i].widgets_values]
                         = heap0[graph.nodes[i].widgets_values]

\* the graph has nodes but lacks one the injector looks for
LacksRequired(which, workflow) ==
    /\ workflow.nodes_kind = "list"
    /\ workflow.nodes # <<>>
    /\ IF which = "005" THEN MissingRequired(workflow.nodes) # {}
       ELSE ~\E i \in 1..Len(workflow.nodes) :
                workflow.nodes[i].type = "WanVideoTextEncode"

\* C20: when the graph lacks a node of a required type the injector still
\* returns a graph, with the nodes that are present injected.
C20_MissingTypeNotFatal ==
    (gpc \in {"injected", "raised"} /\ LacksRequired(compiler, graph)) =>
        /\ inject_raised = ""
        /\ \A i \in 1..Len(graph.nodes) :
              graph.nodes[i].widgets_values # NoList =>
                  heap[injected.nodes[i].widgets_values]
                      = (IF compiler = "005"
                         THEN update_widgets_005(graph.nodes[i],
                                  heap0[graph.nodes[i].widgets_values], params).wv
                         ELSE update_widgets_006(graph.nodes[i],
                                  heap0[graph.nodes[i].widgets_values], params).wv)

(***************************************************************************)
(* Properties of concurrent pipelines                                      *)
(***************************************************************************)
\* what a pipeline returns when it runs alone in an empty working directory:
\* 0 when its video was downloaded, else 1
DownloadedBy(p) == \E w \in written : w = Write(output_file(listed_filename[p]), p)

\* C12: two pipelines interleaved in one working directory share no mutable
\* state: no local file is written by both, and each ends as it would have
\* ended alone.
C12_NoSharedLocalState ==
    /\ \A v, w \in written : v.file = w.file => v.by = w.by
    /\ \A p \in Pipelines :
          cpc[p] = "exited" => (pipeline_exit[p] = 0 <=> DownloadedBy(p))

(***************************************************************************)
(* Properties of download_file, continued                                  *)
(***************************************************************************)
\* C21: every download_file call issues a warm-up request for the artifact
\* URL on the session before the real GET for the same URL, for a video and
\* for any other file.
C21_WarmupBeforeGet ==
    dpc = "done" =>
        \A i \in PrimaryGets :
            /\ i > 1
            /\ requests[i - 1].method = "HEAD"
            /\ requests[i - 1].transport = "session"
            /\ requests[i - 1].url = requests[i].url

\* C28: a download_file call that returns None leaves no new or partly
\* written file at the destination; a path is returned only for a file
\* written completely.
C28_FailureLeavesNoFile ==
    dpc = "done" =>
        /\ dl_result = "None" => dest_file = "absent"
        /\ dl_result = "path" => dest_file = "complete"

(***************************************************************************)
(* Properties of queue_workflow, continued                                 *)
(***************************************************************************)
\* C29: within one queue_workflow call nothing is posted after a request
\* that got a 200 response, and the call returns the job id of that
\* response.
C29_NoPostAfter200 ==
    \A i \in 1..Len(posted) :
        posted[i].kind = "200" =>
            /\ i = Len(posted)
            /\ spc = "done" => submit_result \in {posted[i].id, NoJob}

(***************************************************************************)
(* Properties of the graph compiler, continued                             *)
(***************************************************************************)
\* the keys a workflow dict is known to have
Keys(workflow) ==
    DOMAIN workflow.entries
        \cup (IF workflow.nodes_kind # "absent" THEN {"nodes"} ELSE {})
        \cup (IF workflow.links # <<>> THEN {"links"} ELSE {})
        \cup (IF workflow.prompt # EmptyDict THEN {"prompt"} ELSE {})

\* the nodes of a visual-form graph that are not annotations
Retained(workflow) ==
    {i \in 1..Len(workflow.nodes) : workflow.nodes[i].type # "Note"}

\* C30: for a visual-form graph the keys of the compiler's result are
\* exactly the string ids of the nodes that are not of type Note, and each
\* entry's class type is the type of its node.
C30_KeysAreRetainedIds ==
    (gpc = "compiled" /\ compile_arg.nodes_kind = "list") =>
        /\ compile_raised = ""
        /\ Keys(compiled)
               = {IdStr(compile_arg.nodes[i].id) : i \in Retained(compile_arg)}
        /\ \A i \in Retained(compile_arg) :
              /\ IdStr(compile_arg.nodes[i].id) \in DOMAIN compiled.entries
              /\ compiled.entries[IdStr(compile_arg.nodes[i].id)].class_type
                     = compile_arg.nodes[i].type

\* the same for a graph with at least one node
C30_KeysForNonEmptyGraph ==
    (compile_arg.nodes_kind = "list" /\ compile_arg.nodes # <<>>)
        => C30_KeysAreRetainedIds

(***************************************************************************)
(* C27: get_queue_status of the text-to-video client on a failing request  *)
(***************************************************************************)
\* the default queue record
default_queue_info == QueueInfo(FALSE, FALSE, -1, FALSE, FALSE, "")

\* C27: get_queue_status never raises: for a queue request that fails (a
\* non-200 response or an exception of the request) it returns the default
\* record, and the wait is not left by an exception
C27_QueueFailureNeverRaises ==
    (script = "006" /\ qresp.kind \in {"exc", "non200"})
        => /\ get_queue_status(qresp) = default_queue_info
           /\ outcome # "Raised"

\* the part of C27 that holds: a non-200 queue response gives the default
\* record, and the wait is left by an exception only on a request that raised
C27_Non200GivesDefault ==
    /\ \A q \in QueueResponses :
          q.kind = "non200" => get_queue_status(q) = default_queue_info
    /\ (script = "006" /\ outcome = "Raised") => qresp.kind = "exc"

(***************************************************************************)
(* C26: a poll of the text-to-video tracker whose history query fails      *)
(***************************************************************************)
\* the history query of the current poll failed
HistoryFailed == resp.http \in {"non200", "exc"}

\* C26: a poll whose history query fails never ends the wait
C26_FailedHistoryNeverEndsWait ==
    ~(script = "006" /\ wpc = "done" /\ HistoryFailed)

\* the part of C26 that holds: such a poll ends the wait neither as Complete
\* nor as Errored nor as TimedOut, only by the exception of get_queue_status
C26_FailedHistoryEndsOnlyByException ==
    (script = "006" /\ wpc = "done" /\ HistoryFailed)
        => outcome = "Raised" /\ qresp.kind = "exc"

(***************************************************************************)
(* check_workflow_status of the avatar client (script 002)                 *)
(***************************************************************************)
\* What get_history returned.  kind is "none" (None: a non-200 response or
\* an exception), "empty" (an empty body) or "data"; gifs and videos say
\* whether outputs["13"] has a non-empty list under that key.
AvatarHistory(kind, has_status, status_error, completed, has_outputs, has_gifs, has_videos, executed) ==
    [kind |-> kind, has_status |-> has_status, status_error |-> status_error,
     completed |-> completed, has_outputs |-> has_outputs, gifs |-> has_gifs,
     videos |-> has_videos, executed |-> executed]

NoAvatarHistory ==
    AvatarHistory("none", FALSE, FALSE, FALSE, FALSE, FALSE, FALSE, FALSE)

AvatarHistories ==
    {NoAvatarHistory,
     AvatarHistory("empty", FALSE, FALSE, FALSE, FALSE, FALSE, FALSE, FALSE)}
    \cup
    {AvatarHistory("data", s, s /\ e, s /\ c, o, o /\ g, o /\ v, x) :
        s \in BOOLEAN, e \in BOOLEAN, c \in BOOLEAN, o \in BOOLEAN,
        g \in BOOLEAN, v \in BOOLEAN, x \in BOOLEAN}

\* The response to GET /queue: "exc" (the request or its json() raised),
\* "non200", or a 200 that lists the job as "running", as "pending", or
\* not at all ("absent")
AvatarQueues == {"exc", "non200", "absent", "running", "pending"}

\* (is_complete, history_data, error_message)
AvatarStatus(is_complete, has_data, error) ==
    [is_complete |-> is_complete, has_data |-> has_data, error |-> error]

NoAvatarStatus == AvatarStatus(FALSE, FALSE, "None")

has_node_13_videos(h) == h.gifs \/ h.videos

\* the checks made before the queue query decide the result
DecidedByHistory(h) ==
    \/ h.kind # "data"
    \/ h.has_status /\ (h.status_error \/ h.completed)
    \/ ~h.has_outputs

check_status_after_queue(h, q) ==
    IF q = "exc" THEN AvatarStatus(FALSE, FALSE, "exception")
    ELSE IF q \in {"running", "pending"} THEN AvatarStatus(FALSE, TRUE, "None")
    ELSE IF q = "absent" /\ has_node_13_videos(h) THEN AvatarStatus(TRUE, TRUE, "None")
    ELSE AvatarStatus(has_node_13_videos(h) \/ h.executed, TRUE, "None")

avatar_check_workflow_status(h, q) ==
    IF h.kind # "data" THEN AvatarStatus(FALSE, FALSE, "None")
    ELSE IF h.has_status /\ h.status_error
         THEN AvatarStatus(FALSE, TRUE, "Workflow execution failed")
    ELSE IF h.has_status /\ h.completed THEN AvatarStatus(TRUE, TRUE, "None")
    ELSE IF ~h.has_outputs THEN AvatarStatus(FALSE, TRUE, "None")
    ELSE check_status_after_queue(h, q)

\* get_history, lines 249-268
AvatarGetHistory(h) ==
    /\ avatar_pc = "history"
    /\ avatar_history' = h
    /\ avatar_pc' = "check"
    /\ UNCHANGED <<job_settled, avatar_queue, avatar_status>>

\* the rest of check_workflow_status; the queue is queried only when the
\* history alone does not decide
AvatarCheckStatus(q) ==
    /\ avatar_pc = "check"
    /\ avatar_queue' = IF DecidedByHistory(avatar_history) THEN "not queried" ELSE q
    /\ avatar_status' = avatar_check_workflow_status(avatar_history, q)
    /\ avatar_pc' = "done"
    /\ UNCHANGED <<job_settled, avatar_history>>

StatusInit ==
    /\ job_settled = FALSE
    /\ avatar_pc = "history"
    /\ avatar_history = NoAvatarHistory
    /\ avatar_queue = ""
    /\ avatar_status = NoAvatarStatus
    /\ TrackerIdle
    /\ SubmitIdle
    /\ DownloadIdle
    /\ MainIdle
    /\ AvatarIdle
    /\ GraphIdle
    /\ ConcurrentIdle
    /\ QueueIdle

StatusNext ==
    \/ \E h \in AvatarHistories :
          AvatarGetHistory(h)
              /\ UNCHANGED <<trackerVars, submitVars, downloadVars, mainVars,
                             avatarVars, graphVars, concurrentVars, queueVars>>
    \/ \E q \in AvatarQueues :
          AvatarCheckStatus(q)
              /\ UNCHANGED <<trackerVars, submitVars, downloadVars, mainVars,
                             avatarVars, graphVars, concurrentVars, queueVars>>

SpecStatus == StatusInit /\ [][StatusNext]_vars

(***************************************************************************)
(* C24: video output of node 13 against the queue reading (script 002)     *)
(***************************************************************************)
\* the check ran with a history that shows video output of node 13
ShowsTerminalVideo ==
    /\ avatar_pc = "done"
    /\ avatar_history.kind = "data"
    /\ avatar_history.has_outputs
    /\ has_node_13_videos(avatar_history)
    /\ ~avatar_history.status_error

\* C24: a status check of the avatar client whose history shows video
\* output of node 13 yields Complete also when the queue query of the same
\* check lists the job as running or pending
C24_TerminalOutputOverridesQueue ==
    (ShowsTerminalVideo /\ avatar_queue \in {"running", "pending"})
        => avatar_status.is_complete

\* the part of C24 that holds: with video output of node 13 the check
\* yields Complete when the queue does not list the job, when the queue
\* query answers non-200, and when the status says completed
C24_OutputCompletesWhenNotListed ==
    (ShowsTerminalVideo /\ avatar_queue \in {"absent", "non200", "not queried"})
        => avatar_status.is_complete

(***************************************************************************)
(* The text-to-video tracker against a job that settles                    *)
(***************************************************************************)
\* the remote job records the output of its terminal node: from here on
\* every history response shows it
JobSettles ==
    /\ script = "006"
    /\ wpc # "done"
    /\ ~job_settled
    /\ job_settled' = TRUE
    /\ UNCHANGED <<avatar_pc, avatar_history, avatar_queue, avatar_status>>
    /\ UNCHANGED <<trackerVars, submitVars, downloadVars, mainVars,
                   avatarVars, graphVars, concurrentVars, queueVars>>

\* the history responses while the job runs: failed requests and bodies
\* without an error, a completed flag or output of the terminal node
RunningHistoryResponses ==
    {h \in HistoryResponses :
        ~RecordsTerminal(h) /\ ~h.completed /\ ~h.status_error /\ ~h.t_error}

\* the history responses the server can give
SettledHistoryResponses ==
    IF job_settled THEN {h \in HistoryResponses : RecordsTerminal(h)}
    ELSE RunningHistoryResponses

\* the queue readings: the job listed as pending, as running, or not listed
SettledQueueResponses ==
    {q \in QueueResponses : q.kind \in {"absent", "pending", "running"} /\ ~q.has_node}

SettledInit == TrackerInit /\ script = "006"

SettledNext ==
    \/ JobSettles
    \/ WaitLoopTop /\ UNCHANGED <<submitVars, downloadVars, mainVars, libraryVars>>
    \/ \E h \in SettledHistoryResponses :
          WaitCheckStatus(h) /\ UNCHANGED <<submitVars, downloadVars, mainVars, libraryVars>>
    \/ \E q \in SettledQueueResponses, stall \in Stalls :
          WaitCheckQueue(q, stall) /\ UNCHANGED <<submitVars, downloadVars, mainVars, libraryVars>>
    \/ \E stall \in Stalls :
          WaitPost(stall) /\ UNCHANGED <<submitVars, downloadVars, mainVars, libraryVars>>

\* the loop is sequential code whose requests return or raise and whose
\* sleeps end: a step that can be taken is taken
SpecSettled == SettledInit /\ [][SettledNext]_vars /\ WF_vars(SettledNext)

(***************************************************************************)
(* C25: a settled job completes the wait on the next poll                  *)
(***************************************************************************)
\* a poll that passed the timeout check is about to read the history of a
\* settled job
SettledPoll == script = "006" /\ job_settled /\ wpc = "status"

C25_CompleteOnThatPoll ==
    [][SettledPoll => (wpc' = "done" /\ outcome' = "Complete")]_vars

C23_TimeoutCheckedAtIterationStart ==
    [][script = "006" =>
          /\ (wpc = "top" /\ now - start_time > timeout_seconds)
                => /\ wpc' = "done" /\ outcome' = "TimedOut" /\ retval' = "False"
                   /\ resp' = NoHistory /\ qresp' = NoQueue
                   /\ polls' = polls
          /\ wpc \in {"status", "queue"} => elapsed_time <= timeout_seconds
          /\ (wpc' = "status" /\ wpc # "status")
                => wpc = "top" /\ elapsed_time' = now - start_time]_vars

\* the wait timed out at the start of an iteration resumed after a reading
\* that found the job in the queue
C23_Witness ==
    /\ script = "006" /\ wpc = "done" /\ outcome = "TimedOut"
    /\ polls > 0 /\ queue_listed
    /\ resp = NoHistory /\ qresp = NoQueue

(***************************************************************************)
(* The polling cadence of the two trackers                                 *)
(***************************************************************************)
\* history responses of a job that runs, completes or cannot be reached
CadenceHistoryResponses ==
    {h \in HistoryResponses :
        \/ h.http = "exc"
        \/ h.keyed /\ ~h.status_error /\ h.p_has_outputs /\ h.p_outputs = Partial}

\* queue readings: the job not listed, or pending
CadenceQueueResponses ==
    {q \in QueueResponses : q.kind \in {"absent", "pending"}}

CadenceInit ==
    /\ TrackerStart(MaxCadencePolls)
    /\ timeout_seconds = MaxTimeoutMinutes * 60 * 1000

CadenceNext ==
    \/ WaitLoopTop /\ UNCHANGED <<submitVars, downloadVars, mainVars, libraryVars>>
    \/ \E h \in CadenceHistoryResponses :
          WaitCheckStatus(h) /\ UNCHANGED <<submitVars, downloadVars, mainVars, libraryVars>>
    \/ \E q \in CadenceQueueResponses :
          WaitCheckQueue(q, 0) /\ UNCHANGED <<submitVars, downloadVars, mainVars, libraryVars>>
    \/ WaitPost(0) /\ UNCHANGED <<submitVars, downloadVars, mainVars, libraryVars>>
    \/ ImageLoopTop /\ UNCHANGED <<submitVars, downloadVars, mainVars, libraryVars>>
    \/ \E q \in CadenceQueueResponses :
          ImageCheckQueue(q, 0) /\ UNCHANGED <<submitVars, downloadVars, mainVars, libraryVars>>
    \/ \E q \in CadenceQueueResponses,
          h \in (CadenceHistoryResponses \cap ImageHistoryResponses) \cup {NoHistory} :
          ImageCheckStatus(q, h, 0) /\ UNCHANGED <<submitVars, downloadVars, mainVars, libraryVars>>

SpecCadence == CadenceInit /\ [][CadenceNext]_vars

(***************************************************************************)
(* C22: the sleep interval between polls                                   *)
(***************************************************************************)
\* initial value, cap and growth factor (as a fraction) of each tracker
CadenceInitial == IF script = "006" THEN 5 * 1000 ELSE 2 * 1000
CadenceCap == IF script = "006" THEN 8 * 1000 ELSE 10 * 1000
CadenceFactor == IF script = "006" THEN <<105, 100>> ELSE <<12, 10>>

IntervalInRange ==
    CadenceInitial <= check_interval /\ check_interval <= CadenceCap

\* next is the interval ci grown by the factor and capped, up to the
\* resolution of the clock
GrownFrom(ci, next) ==
    LET num == CadenceFactor[1]
        den == CadenceFactor[2]
    IN  \/ next = CadenceCap /\ ci * num >= CadenceCap * den
        \/ /\ next < CadenceCap
           /\ den * next <= ci * num
           /\ ci * num < den * (next + 1)

\* the step ends a full poll: the history was read, the wait goes on
EndsFullPoll ==
    /\ wpc' = "top"
    /\ \/ script = "006" /\ wpc = "post"
       \/ script = "005" /\ wpc = "status"

\* C22: the sleep interval starts at 5 s (text-to-video) or 2 s
\* (text-to-image), stays between that value and the cap of 8 s or 10 s,
\* never decreases during a wait, and grows by the factor 1.05 or 1.2, up
\* to the cap, after each full poll and only then
C22_IntervalBoundedAndGrowing ==
    [][/\ polls = 0 => check_interval = CadenceInitial
       /\ IntervalInRange /\ IntervalInRange'
       /\ wpc' # "done" => check_interval' >= check_interval
       /\ EndsFullPoll => GrownFrom(check_interval, check_interval')
       /\ (wpc' # "done" /\ ~EndsFullPoll) => check_interval' = check_interval]_vars

\* the interval has reached the cap in a wait that also slept after a
\* reading with the job in the queue
C22_Witness ==
    /\ script = "006" /\ wpc = "top" /\ check_interval = max_check_interval
    /\ queue_listed

C22_ImageWitness ==
    /\ script = "005" /\ wpc = "top" /\ check_interval = image_max_check_interval

(***************************************************************************)
(* C39: a failing warm-up request                                          *)
(***************************************************************************)
\* the call began with a warm-up request
WarmedUp == requests # <<>> /\ requests[1].method = "HEAD"

\* C39: a warm-up that answers a non-success status or raises never aborts
\* the download: the GET on the session follows it, for the same URL, and
\* the result of the call is decided by the last GET alone
C39_WarmupFailureDoesNotAbort ==
    (WarmedUp /\ dpc \in {"fallback", "done"})
        => /\ Len(requests) >= 2
           /\ requests[2].method = "GET"
           /\ requests[2].transport = "session"
           /\ requests[2].url = requests[1].url
           /\ dpc = "done" =>
                 /\ requests[Len(requests)].method = "GET"
                 /\ dl_result = "path" <=> requests[Len(requests)].result = "200"
                 /\ Len(requests) = 3 <=> requests[2].result = "non200"

C39_Witness ==
    /\ dpc = "done" /\ WarmedUp
    /\ requests[1].result \in {"non200", "exc"}
    /\ dl_result = "path"

(***************************************************************************)
(* C31, C32, C33: the inputs of a compiled node                            *)
(***************************************************************************)
\* a visual graph with at least one node was compiled
CompiledVisual ==
    /\ gpc = "compiled"
    /\ compile_raised = ""
    /\ compile_arg.nodes_kind = "list"
    /\ compile_arg.nodes # <<>>

\* the compiled inputs of node i of the compiler's argument
InputsOf(i) == compiled.entries[IdStr(compile_arg.nodes[i].id)].inputs

\* the positions in the link table of the links with this id
LinksWithId(link_id) ==
    {j \in 1..Len(compile_arg.links) : compile_arg.links[j][1] = link_id}

\* the slots of a node that are bound to a link of the table
BoundSlots(node) ==
    {s \in 1..Len(node.inputs) :
        node.inputs[s].link # NoLink /\ LinksWithId(node.inputs[s].link) # {}}

\* the node types each compiler has a positional schema for
SchemaTypes ==
    IF compiler = "005"
    THEN {"CLIPTextEncode", "KSampler", "EmptyLatentImage", "EmptySD3LatentImage",
          "SaveImage", "VAELoader", "UNETLoader", "QuadrupleCLIPLoader",
          "ModelSamplingSD3"}
    ELSE {"WanVideoTextEncode", "WanVideoEmptyEmbeds", "WanVideoTorchCompileSettings",
          "WanVideoTeaCache", "WanVideoEnhanceAVideo", "WanVideoSampler",
          "WanVideoDecode", "WanVideoVAELoader", "WanVideoModelLoader",
          "VHS_VideoCombine"}

\* C31: in a compiled node every slot bound to a link of the table maps its
\* name to [string id of the link's producer, the link's output index] (the
\* first link of the table with that id); a slot that is not bound produces
\* no entry; a node of a type without a positional schema has the inputs of
\* its bound slots and no others
C31_BoundSlotsResolved ==
    CompiledVisual =>
        \A i \in Retained(compile_arg) :
            LET node == compile_arg.nodes[i]
                bound == BoundSlots(node)
                names == {node.inputs[s].name : s \in bound}
            IN  /\ \A s \in bound :
                      LET first == CHOOSE j \in LinksWithId(node.inputs[s].link) :
                                      \A k \in LinksWithId(node.inputs[s].link) : j <= k
                          link == compile_arg.links[first]
                      IN  /\ node.inputs[s].name \in DOMAIN InputsOf(i)
                          /\ InputsOf(i)[node.inputs[s].name]
                                 = <<"list", IdStr(link[2]), link[3]>>
                /\ \A s \in (1..Len(node.inputs)) \ bound :
                      node.inputs[s].name \in DOMAIN InputsOf(i)
                          => /\ node.inputs[s].name \notin names
                             /\ InputsOf(i)[node.inputs[s].name][1] # "list"
                /\ node.type \notin SchemaTypes => DOMAIN InputsOf(i) = names

\* a node without a positional schema was compiled with a bound slot, and
\* another node with a slot whose link is not in the table
C31_Witness ==
    /\ CompiledVisual
    /\ \E i \in Retained(compile_arg) :
          /\ compile_arg.nodes[i].type \notin SchemaTypes
          /\ BoundSlots(compile_arg.nodes[i]) # {}
          /\ Cardinality(LinksWithId(compile_arg.nodes[i].inputs[1].link)) > 1
    /\ \E i \in Retained(compile_arg) :
          \E s \in 1..Len(compile_arg.nodes[i].inputs) :
              /\ s \notin BoundSlots(compile_arg.nodes[i])
              /\ compile_arg.nodes[i].inputs[s].link # NoLink

\* the names the positional schema gives to the values of node i
WidgetNames(i) ==
    LET node == compile_arg.nodes[i]
    IN  IF node.widgets_values = NoList THEN {}
        ELSE IF compiler = "005"
             THEN DOMAIN widget_inputs_005(node.type, node.title, heap[node.widgets_values])
             ELSE DOMAIN widget_inputs_006(node.type, node.title, heap[node.widgets_values])

\* C32: in no compiled node is an input name produced both by the
\* positional schema and by a bound slot
C32_SourcesDoNotCollide ==
    CompiledVisual =>
        \A i \in Retained(compile_arg) :
            WidgetNames(i) \cap {compile_arg.nodes[i].inputs[s].name :
                                    s \in BoundSlots(compile_arg.nodes[i])} = {}

\* what a collision does: the producer reference is what the compiled node
\* carries under the name
C32_LinkReplacesValue ==
    CompiledVisual =>
        \A i \in Retained(compile_arg) :
            \A s \in BoundSlots(compile_arg.nodes[i]) :
                InputsOf(i)[compile_arg.nodes[i].inputs[s].name][1] = "list"

\* C33: compiling a graph that has a node list, empty or not, returns an
\* execution-form graph: no node list, link table or "prompt" key, and
\* every entry a record of class type and inputs
C33_ResultIsExecutionForm ==
    (gpc = "compiled" /\ compile_arg.nodes_kind = "list") =>
        /\ compile_raised = ""
        /\ compiled.nodes_kind = "absent"
        /\ compiled.links = <<>>
        /\ compiled.prompt = EmptyDict
        /\ \A k \in DOMAIN compiled.entries :
              DOMAIN compiled.entries[k] = {"class_type", "title", "inputs"}

\* the same for a graph with at least one node
C33_ExecutionFormForNonEmptyGraph ==
    (compile_arg.nodes_kind = "list" /\ compile_arg.nodes # <<>>)
        => C33_ResultIsExecutionForm

(***************************************************************************)
(* C34, C35: what update_text_to_image_workflow changes                    *)
(***************************************************************************)
\* the text-to-image injector returned a graph
ImageInjected == gpc = "injected" /\ compiler = "005" /\ inject_raised = ""

\* the widget list of node i before and after the injection (<<>> when the
\* node has none)
WidgetsBefore(i) ==
    IF graph.nodes[i].widgets_values = NoList THEN <<>>
    ELSE heap0[graph.nodes[i].widgets_values]

WidgetsAfter(i) ==
    IF injected.nodes[i].widgets_values = NoList THEN <<>>
    ELSE heap[injected.nodes[i].widgets_values]

\* C34: the text-to-image injector tells the text nodes apart by title: the
\* positive prompt is written into the CLIPTextEncode nodes titled
\* "Positive Prompt" and into no other node, the negative prompt into those
\* titled "Negative Prompt" and into no other node, and a CLIPTextEncode
\* node with another title or none keeps its values
C34_PromptsByTitle ==
    ImageInjected =>
        \A i \in 1..Len(injected.nodes) :
            LET node == injected.nodes[i]
                old == WidgetsBefore(i)
                new == WidgetsAfter(i)
            IN  /\ (IsPositivePrompt(node) /\ node.widgets_values # NoList)
                      => new = [old EXCEPT ![1] = params.positive_prompt]
                /\ (IsNegativePrompt(node) /\ node.widgets_values # NoList)
                      => new = [old EXCEPT ![1] = params.negative_prompt]
                /\ (node.type = "CLIPTextEncode"
                        /\ ~IsPositivePrompt(node) /\ ~IsNegativePrompt(node))
                      => new = old
                /\ ~IsPositivePrompt(node)
                      => \A k \in 1..Len(new) : new[k] # params.positive_prompt
                /\ ~IsNegativePrompt(node)
                      => \A k \in 1..Len(new) : new[k] # params.negative_prompt

\* both prompts were written next to a text node with another title
C34_Witness ==
    /\ ImageInjected
    /\ \E i, j, k \in 1..Len(injected.nodes) :
          /\ IsPositivePrompt(injected.nodes[i])
          /\ WidgetsAfter(i) = <<params.positive_prompt>>
          /\ IsNegativePrompt(injected.nodes[j])
          /\ WidgetsAfter(j) = <<params.negative_prompt>>
          /\ injected.nodes[k].type = "CLIPTextEncode"
          /\ injected.nodes[k].title = "Style"
          /\ WidgetsAfter(k) = <<Str("old")>>

\* the node types the text-to-image injector writes into
InjectedTypes ==
    {"CLIPTextEncode", "KSampler", "EmptyLatentImage", "EmptySD3LatentImage",
     "SaveImage"}

\* C35: the graph the text-to-image injector returns has the nodes of its
\* input in the same order, each with its id, type, title and input slots,
\* the same link table, widget lists of the same lengths, and the nodes of
\* the types the injector does not know with the same values
C35_OnlyValuesChange ==
    ImageInjected =>
        /\ injected.nodes_kind = graph.nodes_kind
        /\ Len(injected.nodes) = Len(graph.nodes)
        /\ injected.links = graph.links
        /\ injected.prompt = graph.prompt
        /\ injected.entries = graph.entries
        /\ \A i \in 1..Len(graph.nodes) :
              /\ injected.nodes[i].id = graph.nodes[i].id
              /\ injected.nodes[i].type = graph.nodes[i].type
              /\ injected.nodes[i].class_type = graph.nodes[i].class_type
              /\ injected.nodes[i].title = graph.nodes[i].title
              /\ injected.nodes[i].inputs = graph.nodes[i].inputs
              /\ (injected.nodes[i].widgets_values = NoList)
                     <=> (graph.nodes[i].widgets_values = NoList)
              /\ Len(WidgetsAfter(i)) = Len(WidgetsBefore(i))
              /\ graph.nodes[i].type \notin InjectedTypes
                     => WidgetsAfter(i) = WidgetsBefore(i)

\* a graph with bound slots, links and a node of a type the injector does
\* not know was injected, and values changed
C35_Witness ==
    /\ ImageInjected
    /\ graph.links # <<>>
    /\ \E i \in 1..Len(graph.nodes) : graph.nodes[i].inputs # <<>>
    /\ \E i \in 1..Len(graph.nodes) :
          /\ graph.nodes[i].type \notin InjectedTypes
          /\ WidgetsBefore(i) # <<>>
    /\ \E i \in 1..Len(graph.nodes) :
          /\ graph.nodes[i].type = "EmptySD3LatentImage"
          /\ Len(WidgetsBefore(i)) = 1
    /\ \E i \in 1..Len(graph.nodes) : WidgetsAfter(i) # WidgetsBefore(i)

(***************************************************************************)
(* get_queue_status (script 006) over the lists of a 200 response          *)
(***************************************************************************)
\* the job asked about
PromptId == "job"

\* an item of queue_running or queue_pending: the prompt id at its index 1,
\* "" for an item that is not a list with more than one element
QueueItems == {PromptId, "other", ""}

QueueLists == UNION {[1..n -> QueueItems] : n \in 0..MaxQueue}

\* the positions of the job in a list
Occurrences(list, prompt_id) == {i \in 1..Len(list) : list[i] = prompt_id}

First(S) == CHOOSE i \in S : \A j \in S : i <= j

\* a variant that looks at the pending list first
queue_info_pending_first(running, pending, prompt_id) ==
    IF Occurrences(pending, prompt_id) # {}
    THEN QueueInfo(FALSE, TRUE, First(Occurrences(pending, prompt_id)), FALSE, FALSE, "")
    ELSE IF Occurrences(running, prompt_id) # {}
    THEN QueueInfo(FALSE, TRUE, 0, TRUE, FALSE, "")
    ELSE QueueInfo(FALSE, FALSE, -1, FALSE, FALSE, "")

\* lines 1135-1158: the loop over queue_running, then, if the job was not
\* found there, the loop over queue_pending (queue_position None is -1)
queue_info_from(running, pending, prompt_id) ==
    IF Occurrences(running, prompt_id) # {}
    THEN QueueInfo(FALSE, TRUE, 0, TRUE, FALSE, "")
    ELSE IF Occurrences(pending, prompt_id) # {}
    THEN QueueInfo(FALSE, TRUE, First(Occurrences(pending, prompt_id)), FALSE, FALSE, "")
    ELSE QueueInfo(FALSE, FALSE, -1, FALSE, FALSE, "")

\* one call of get_queue_status that is answered 200
QueueQuery ==
    /\ qpc = "start"
    /\ queue_report' = queue_info_from(engine_running, engine_pending, PromptId)
    /\ qpc' = "done"
    /\ UNCHANGED <<engine_running, engine_pending>>

QueueInit ==
    /\ qpc = "start"
    /\ engine_running \in QueueLists
    /\ engine_pending \in QueueLists
    /\ queue_report = default_queue_info
    /\ TrackerIdle
    /\ SubmitIdle
    /\ DownloadIdle
    /\ MainIdle
    /\ AvatarIdle
    /\ GraphIdle
    /\ ConcurrentIdle
    /\ StatusIdle

QueueNext ==
    QueueQuery
        /\ UNCHANGED <<trackerVars, submitVars, downloadVars, mainVars,
                       avatarVars, graphVars, concurrentVars, statusVars>>

SpecQueue == QueueInit /\ [][QueueNext]_vars

(***************************************************************************)
(* C36: what get_queue_status reports                                      *)
(***************************************************************************)
InRunning == \E i \in 1..Len(engine_running) : engine_running[i] = PromptId
InPending == \E i \in 1..Len(engine_pending) : engine_pending[i] = PromptId

\* C36: get_queue_status reports is_in_queue exactly when the job is in the
\* running or the pending list; a job in the running list is reported as
\* running at position 0, also when it is among the pending too; otherwise
\* the position is the 1-based index of the job in the pending list;
\* is_in_queue comes with a position, running never with a position above
\* 0; the call changes nothing but its result
C36_QueueReport ==
    [][qpc = "start" =>
          /\ queue_report'.is_in_queue <=> (InRunning \/ InPending)
          /\ InRunning => queue_report'.queue_running /\ queue_report'.queue_position = 0
          /\ (~InRunning /\ InPending) =>
                /\ ~queue_report'.queue_running
                /\ queue_report'.queue_position \in 1..Len(engine_pending)
                /\ engine_pending[queue_report'.queue_position] = PromptId
                /\ \A i \in 1..(queue_report'.queue_position - 1) :
                      engine_pending[i] # PromptId
          /\ queue_report'.is_in_queue => queue_report'.queue_position # -1
          /\ ~(queue_report'.queue_running /\ queue_report'.queue_position > 0)
          /\ ~queue_report'.raised
          /\ UNCHANGED <<trackerVars, engine_running, engine_pending>>]_vars

\* the job was reported running at position 0 while it was also the second
\* of the pending list
C36_Witness ==
    /\ qpc = "done"
    /\ InRunning
    /\ Len(engine_pending) >= 2 /\ engine_pending[2] = PromptId
    /\ queue_report.queue_running /\ queue_report.queue_position = 0

C36_PendingWitness ==
    /\ qpc = "done"
    /\ ~InRunning
    /\ Len(engine_pending) = 3 /\ engine_pending[1] = ""
    /\ engine_pending[2] = PromptId /\ engine_pending[3] = PromptId
    /\ queue_report.queue_position = 2

(***************************************************************************)
(* C37: when the text-to-image tracker returns Complete                    *)
(***************************************************************************)
\* C37: the text-to-image wait returns Complete only on a poll in which
\* neither queue query (the one of the loop, the one of
\* check_workflow_status) listed the job and the history entry of the job
\* has status.completed = true together with an outputs field
C37_ImageCompleteNeedsFlagAndOutputs ==
    [][(script = "005" /\ outcome # "Complete" /\ outcome' = "Complete") =>
          /\ wpc = "status"
          /\ ~is_prompt_in_queue(qresp)
          /\ ~is_prompt_in_queue(qresp')
          /\ resp'.http = "200" /\ resp'.keyed
          /\ resp'.completed /\ resp'.p_has_outputs
          /\ retval' = "True"]_vars

\* the wait completed on a later poll, on an entry that has the flag, the
\* outputs and an error status as well
C37_Witness ==
    /\ script = "005" /\ wpc = "done" /\ outcome = "Complete"
    /\ polls > 1
    /\ resp.completed /\ resp.p_has_outputs /\ resp.status_error

(***************************************************************************)
(* update_text_to_video_workflow (script 006): the synthesized graph       *)
(***************************************************************************)
\* a float, in hundredths
Float(hundredths) == <<"float", "", hundredths>>

VideoParams(positive_prompt, width_height, frames_fps, seed, steps) ==
    [positive_prompt |-> positive_prompt, negative_prompt |-> Str("blurry"),
     width |-> width_height[1], height |-> width_height[2],
     frames |-> frames_fps[1], fps |-> frames_fps[2], seed |-> seed, steps |-> steps]

VideoParamChoices ==
    {VideoParams(t, wh, ff, s, n) :
        t \in {Str("a red fox"), Str("")},
        wh \in {<<Num(832), Num(480)>>, <<Num(480), Num(832)>>},
        ff \in {<<Num(48), Num(24)>>, <<Num(81), Num(16)>>, <<Num(0), Num(0)>>},
        s \in {None, Num(0), Num(7)},
        n \in {Num(25), Num(1)}}

\* time.time() * 1000 at the call, already below 2**32
SeedClocks == {StartClock, StartClock + 1}

Node(class_type, inputs) == ExecNode(class_type, "", inputs)

\* lines 225-387: the twelve nodes
video_api_nodes(p, clock) ==
    ("11" :> Node("LoadWanVideoT5TextEncoder",
            ("model_name" :> Str("umt5-xxl-enc-bf16.safetensors"))
         @@ ("precision" :> Str("bf16"))
         @@ ("offload_model" :> Str("offload_device"))
         @@ ("offload_type" :> Str("disabled"))))
 @@ ("37" :> Node("WanVideoEmptyEmbeds",
            ("width" :> p.width) @@ ("height" :> p.height)
         @@ ("num_frames" :> p.frames)))
 @@ ("38" :> Node("WanVideoVAELoader",
            ("model_name" :> Str("Wan2_1_VAE_bf16.safetensors"))
         @@ ("precision" :> Str("bf16"))))
 @@ ("39" :> Node("WanVideoBlockSwap",
            ("blocks_to_swap" :> Num(20)) @@ ("offload_txt_emb" :> Bool(FALSE))
         @@ ("offload_img_emb" :> Bool(FALSE)) @@ ("non_blocking" :> Bool(TRUE))
         @@ ("vace_blocks_to_swap" :> Num(0))))
 @@ ("35" :> Node("WanVideoTorchCompileSettings",
            ("backend" :> Str("inductor")) @@ ("mode" :> Str("default"))
         @@ ("fullgraph" :> Bool(FALSE)) @@ ("max_autotune" :> Bool(FALSE))
         @@ ("max_autotune_gemm_backends" :> Num(64))
         @@ ("use_fp16_cast" :> Bool(FALSE))
         @@ ("max_autotune_gemm_warmup" :> Num(128))
         @@ ("compile_transformer_blocks_only" :> Bool(TRUE))
         @@ ("dynamic" :> Bool(FALSE)) @@ ("dynamo_cache_size_limit" :> Num(64))))
 @@ ("52" :> Node("WanVideoTeaCache",
            ("start_step" :> Float(25)) @@ ("end_step" :> Float(100))
         @@ ("rel_l1_thresh" :> Float(97)) @@ ("cache_device" :> Str("offload_device"))
         @@ ("use_coefficients" :> Bool(TRUE)) @@ ("coeff_mode" :> Str("e"))))
 @@ ("55" :> Node("WanVideoEnhanceAVideo",
            ("enhance_factor" :> Num(2)) @@ ("enhance_start" :> Num(0))
         @@ ("enhance_end" :> Num(1)) @@ ("start_percent" :> Num(0))
         @@ ("end_percent" :> Num(1)) @@ ("weight" :> Num(1))))
 @@ ("16" :> Node("WanVideoTextEncode",
            ("t5" :> Ref("11", 0)) @@ ("positive_prompt" :> p.positive_prompt)
         @@ ("negative_prompt" :> p.negative_prompt) @@ ("force_zeros" :> Bool(TRUE))))
 @@ ("22" :> Node("WanVideoModelLoader",
            ("compile_args" :> Ref("35", 0)) @@ ("block_swap_args" :> Ref("39", 0))
         @@ ("model" :> Str("WanVideo/Wan2_1-T2V-14B_fp8_e4m3fn.safetensors"))
         @@ ("base_precision" :> Str("fp16")) @@ ("quantization" :> Str("disabled"))
         @@ ("load_device" :> Str("offload_device"))
         @@ ("attention_implementation" :> Str("sdpa"))))
 @@ ("27" :> Node("WanVideoSampler",
            ("model" :> Ref("22", 0)) @@ ("text_embeds" :> Ref("16", 0))
         @@ ("image_embeds" :> Ref("37", 0)) @@ ("teacache_args" :> Ref("52", 0))
         @@ ("feta_args" :> Ref("55", 0)) @@ ("steps" :> p.steps)
         @@ ("cfg" :> Float(600))
         @@ ("seed" :> (IF p.seed # None THEN p.seed ELSE Num(clock)))
         @@ ("sampler_name" :> Str("fixed")) @@ ("diffusion_type" :> Bool(TRUE))
         @@ ("scheduler" :> Str("unipc")) @@ ("riflex_freq_index" :> Num(0))
         @@ ("shift" :> Float(500)) @@ ("force_offload" :> Bool(FALSE))
         @@ ("implementation" :> Str("comfy"))))
 @@ ("28" :> Node("WanVideoDecode",
            ("vae" :> Ref("38", 0)) @@ ("samples" :> Ref("27", 0))
         @@ ("restore_faces" :> Bool(TRUE)) @@ ("tile_x" :> Num(272))
         @@ ("tile_y" :> Num(272)) @@ ("tile_stride_x" :> Num(144))
         @@ ("tile_stride_y" :> Num(128)) @@ ("enable_vae_tiling" :> Bool(TRUE))))
 @@ ("30" :> Node("VHS_VideoCombine",
            ("images" :> Ref("28", 0)) @@ ("frame_rate" :> p.fps)
         @@ ("loop_count" :> Num(0)) @@ ("filename_prefix" :> Str("video_output"))
         @@ ("format" :> Str("video/h264-mp4")) @@ ("pingpong" :> Bool(FALSE))
         @@ ("save_output" :> Bool(TRUE))))

\* the node map without the TeaCache node
NodesWithoutTeaCache(p, clock) ==
    [k \in DOMAIN video_api_nodes(p, clock) \ {"52"} |-> video_api_nodes(p, clock)[k]]

\* a variant that leaves the TeaCache node out
update_text_to_video_workflow_pruned(p, clock) ==
    Workflow("dict", <<>>, NodesWithoutTeaCache(p, clock), <<>>, EmptyDict, EmptyDict)

\* lines 389-401: the node map under "nodes" (the "extra_data" key next to
\* it is read by nothing)
update_text_to_video_workflow(p, clock) ==
    Workflow("dict", <<>>, video_api_nodes(p, clock), <<>>, EmptyDict, EmptyDict)

\* main.py calls the synthesizer on the loaded workflow, which it ignores
GraphSynthesize(clock) ==
    /\ gpc = "start"
    /\ compiler = "006"
    /\ injected' = update_text_to_video_workflow(params, clock)
    /\ inject_raised' = ""
    /\ gpc' = "injected"
    /\ UNCHANGED <<compiler, heap, heap0, graph, params, compile_arg, compiled,
                   compile_raised>>

SynthInit ==
    /\ TrackerIdle
    /\ SubmitIdle
    /\ DownloadIdle
    /\ MainIdle
    /\ AvatarIdle
    /\ ConcurrentIdle
    /\ StatusIdle
    /\ QueueIdle
    /\ gpc = "start"
    /\ compiler = "006"
    /\ heap = <<>>
    /\ heap0 = <<>>
    /\ graph \in {g \in OtherForms : g.nodes_kind # "dict"}
    /\ params \in VideoParamChoices
    /\ injected = NoWorkflow
    /\ inject_raised = ""
    /\ compile_arg = NoWorkflow
    /\ compiled = NoWorkflow
    /\ compile_raised = ""

SynthNext ==
    \/ \E clock \in SeedClocks :
          GraphSynthesize(clock)
              /\ UNCHANGED <<trackerVars, submitVars, downloadVars, mainVars,
                             avatarVars, concurrentVars, statusVars, queueVars>>
    \/ gpc = "injected"
          /\ GraphCompile
          /\ UNCHANGED <<trackerVars, submitVars, downloadVars, mainVars,
                         avatarVars, concurrentVars, statusVars, queueVars>>

SpecSynth == SynthInit /\ [][SynthNext]_vars

(***************************************************************************)
(* C38: the synthesized text-to-video graph                                *)
(***************************************************************************)
\* the producer ids the inputs of a node map refer to
Producers(g) ==
    UNION {{g[k].inputs[name][2] :
               name \in {n \in DOMAIN g[k].inputs : g[k].inputs[n][1] = "list"}} :
           k \in DOMAIN g}

\* C38: for every choice of parameters the graph update_text_to_video_workflow
\* builds is closed under references (every [producer id, output index]
\* input names a key of the graph) and has the terminal node "30", and
\* compiling it returns exactly that node map
C38_SynthesizedGraphClosed ==
    (gpc \in {"injected", "compiled"} /\ injected.nodes_kind = "dict") =>
        /\ Producers(injected.nodes_map) \subseteq DOMAIN injected.nodes_map
        /\ TerminalNode \in DOMAIN injected.nodes_map
        /\ gpc = "compiled" =>
              /\ compile_raised = ""
              /\ compile_arg = injected
              /\ compiled = ExecGraph(injected.nodes_map)

\* a graph synthesized without a seed, with the seed of the clock, was
\* compiled
C38_Witness ==
    /\ gpc = "compiled" /\ injected.nodes_kind = "dict"
    /\ params.seed = None /\ params.frames = Num(0)
    /\ compiled.entries["27"].inputs["seed"] = Num(StartClock + 1)
    /\ Cardinality(Producers(injected.nodes_map)) = 11
=============================================================================
